---- MODULE Spec2Model ----
(***************************************************************************)
(* Model of the Workbook class of src/src/main.js: one substitution pass   *)
(* (Workbook.substitute) over one sheet of a loaded template.              *)
(*                                                                         *)
(* Text (shared strings, cell values, substitution strings) is a sequence  *)
(* of symbols.  A symbol is one character, or a run of letters that holds  *)
(* no delimiter of the placeholder grammar ("table", "image", a name).     *)
(* A cell reference such as "B2" is the record [col |-> 2, row |-> 2,      *)
(* sp |-> FALSE]; sp tells that the text holds a blank between the column  *)
(* letters and the row digits ("B 2"); col = 0 is the empty letter run.    *)
(***************************************************************************)
EXTENDS Integers, Sequences, FiniteSets, TLC

\* ------------------------------------------------------------------ text

Min(S) ==
  CHOOSE x \in S : \A y \in S : x <= y

\* Op applied to the value v: names a value that is computed once
With(v, Op(_)) ==
  Op(v)

Digit(d) ==
  <<"0", "1", "2", "3", "4", "5", "6", "7", "8", "9">>[d + 1]

RECURSIVE NumToStr(_)
\* Number(value).toString() for a natural number, and for what is no number
\* (n < 0)
NumToStr(n) ==
  IF n < 0 THEN <<"NaN">>
  ELSE IF n < 10 THEN <<Digit(n)>>
  ELSE NumToStr(n \div 10) \o <<Digit(n % 10)>>

DigitVal(c) ==
  CASE c = "0" -> 0 [] c = "1" -> 1 [] c = "2" -> 2 [] c = "3" -> 3
    [] c = "4" -> 4 [] c = "5" -> 5 [] c = "6" -> 6 [] c = "7" -> 7
    [] c = "8" -> 8 [] c = "9" -> 9 [] OTHER -> -1

NaN ==
  -1

RECURSIVE ParseDigits(_, _, _)
ParseDigits(s, i, acc) ==
  IF i > Len(s) \/ DigitVal(s[i]) < 0 THEN acc
  ELSE ParseDigits(s, i + 1, acc * 10 + DigitVal(s[i]))

\* parseInt(text, 10) of a text without sign or leading blanks
ParseInt(s) ==
  IF Len(s) = 0 \/ DigitVal(s[1]) < 0 THEN NaN ELSE ParseDigits(s, 1, 0)

\* ---------------------------------------------------------------- values
\* A substitution value, as JavaScript sees it:
\*   k = "str"   a string, s its text
\*   k = "num"   a number, n its value
\*   k = "bool"  a boolean, n = 1 for true
\*   k = "list"  an Array, items its elements
\*   k = "rec"   an object with the one field "k": items = <<value>>, or
\*               items = <<>> when the field is missing
\*   k = "img"   an image source (bytes); n = 1 iff image-size can decode it
\*   k = "undef" undefined

Val(kind, str, num, its) ==
  [k |-> kind, s |-> str, n |-> num, items |-> its]

Str(s) ==
  Val("str", s, 0, <<>>)

Num(n) ==
  Val("num", <<>>, n, <<>>)

Bool(b) ==
  Val("bool", <<>>, IF b THEN 1 ELSE 0, <<>>)

List(its) ==
  Val("list", <<>>, 0, its)

Rec(its) ==
  Val("rec", <<>>, 0, its)

Img(ok) ==
  Val("img", <<>>, IF ok THEN 1 ELSE 0, <<>>)

Undef ==
  Val("undef", <<>>, 0, <<>>)

\* _stringify(value)
Stringify(v) ==
  CASE v.k = "num" -> NumToStr(v.n)
    [] v.k = "bool" -> NumToStr(v.n)
    [] v.k = "str" -> v.s
    [] OTHER -> <<>>

\* ------------------------------------------------- String.prototype.replace

IsAt(s, pat, i) ==
  /\ i + Len(pat) - 1 <= Len(s)
  /\ \A j \in 1..Len(pat) : s[i + j - 1] = pat[j]

\* index of the first occurrence of pat in s, 0 when there is none
IndexOf(s, pat) ==
  LET hits == {i \in 1..Len(s) : IsAt(s, pat, i)}
  IN  IF hits = {} THEN 0 ELSE Min(hits)

RECURSIVE ExpandRepl(_, _, _, _, _)
\* the replacement text with its $-patterns expanded ($$, $&, $`, $')
ExpandRepl(repl, i, matched, before, after) ==
  IF i > Len(repl) THEN <<>>
  ELSE IF repl[i] = "$" /\ i < Len(repl) /\ repl[i + 1] = "$"
    THEN <<"$">> \o ExpandRepl(repl, i + 2, matched, before, after)
  ELSE IF repl[i] = "$" /\ i < Len(repl) /\ repl[i + 1] = "&"
    THEN matched \o ExpandRepl(repl, i + 2, matched, before, after)
  ELSE IF repl[i] = "$" /\ i < Len(repl) /\ repl[i + 1] = "`"
    THEN before \o ExpandRepl(repl, i + 2, matched, before, after)
  ELSE IF repl[i] = "$" /\ i < Len(repl) /\ repl[i + 1] = "'"
    THEN after \o ExpandRepl(repl, i + 2, matched, before, after)
  ELSE <<repl[i]>> \o ExpandRepl(repl, i + 1, matched, before, after)

\* string.replace(pat, repl) with a string pattern: the first occurrence only
Replace(s, pat, repl) ==
  LET i == IndexOf(s, pat)
  IN  IF i = 0 THEN s
      ELSE LET before == SubSeq(s, 1, i - 1)
               after == SubSeq(s, i + Len(pat), Len(s))
           IN  before \o ExpandRepl(repl, 1, pat, before, after) \o after

\* --------------------------------------------------- extractPlaceholders
\* /\${(?:(.+?):)?(.+?)(?:\.(.+?))?(?::(.+?))??}/g, by the order in which a
\* backtracking matcher tries the alternatives.  A result is
\* [ok, end, type, name, key, hasKey, subType]; end = index of the closing "}".

NoMatch ==
  [ok |-> FALSE, end |-> 0, type |-> <<>>, name |-> <<>>, key |-> <<>>,
   hasKey |-> FALSE, subType |-> <<>>]

At(s, i) ==
  IF i >= 1 /\ i <= Len(s) THEN s[i] ELSE "<eos>"

\* (?::(.+?))??}  after the text that ends at index w
MatchTail(s, w) ==
  IF At(s, w + 1) = "}" THEN [ok |-> TRUE, end |-> w + 1, subType |-> <<>>]
  ELSE IF At(s, w + 1) = ":"
    THEN LET xs == {x \in (w + 2)..(Len(s) - 1) : s[x + 1] = "}"}
         IN  IF xs = {} THEN [ok |-> FALSE, end |-> 0, subType |-> <<>>]
             ELSE [ok |-> TRUE, end |-> Min(xs) + 1,
                   subType |-> SubSeq(s, w + 2, Min(xs))]
  ELSE [ok |-> FALSE, end |-> 0, subType |-> <<>>]

\* (?:\.(.+?))?(?::(.+?))??}  after the name that ends at index u
MatchKey(s, u) ==
  With(IF At(s, u + 1) = "."
         THEN {w \in (u + 2)..Len(s) : MatchTail(s, w).ok}
         ELSE {},
       LAMBDA ws :
         With(MatchTail(s, IF ws # {} THEN Min(ws) ELSE u), LAMBDA t :
           IF ws # {}
             THEN [ok |-> TRUE, end |-> t.end, key |-> SubSeq(s, u + 2, Min(ws)),
                   hasKey |-> TRUE, subType |-> t.subType]
             ELSE [ok |-> t.ok, end |-> t.end, key |-> <<>>, hasKey |-> FALSE,
                   subType |-> t.subType]))

\* (.+?)(?:\.(.+?))?(?::(.+?))??}  from index pos
MatchRest(s, pos) ==
  With({u \in pos..Len(s) : MatchKey(s, u).ok}, LAMBDA us :
    IF us = {} THEN NoMatch
    ELSE With(MatchKey(s, Min(us)), LAMBDA m :
           [ok |-> TRUE, end |-> m.end, type |-> <<"normal">>,
            name |-> SubSeq(s, pos, Min(us)), key |-> m.key,
            hasKey |-> m.hasKey, subType |-> m.subType]))

\* the whole expression, anchored at index p
MatchAt(s, p) ==
  IF ~(At(s, p) = "$" /\ At(s, p + 1) = "{") THEN NoMatch
  ELSE With({t \in (p + 2)..Len(s) :
               At(s, t + 1) = ":" /\ MatchRest(s, t + 2).ok},
            LAMBDA ts :
              With(MatchRest(s, IF ts # {} THEN Min(ts) + 2 ELSE p + 2), LAMBDA m :
                IF ts # {} THEN [m EXCEPT !.type = SubSeq(s, p + 2, Min(ts))]
                ELSE m))

RECURSIVE ScanFrom(_, _)
ScanFrom(s, p) ==
  IF p > Len(s) THEN <<>>
  ELSE With(MatchAt(s, p), LAMBDA m :
         IF m.ok
           THEN <<[placeholder |-> SubSeq(s, p, m.end), type |-> m.type,
                   name |-> m.name, key |-> m.key, hasKey |-> m.hasKey,
                   subType |-> m.subType,
                   full |-> (m.end - p + 1 = Len(s))]>>
                \o ScanFrom(s, m.end + 1)
           ELSE ScanFrom(s, p + 1))

extractPlaceholders(s) ==
  ScanFrom(s, 1)

\* ------------------------------------------------------ reference algebra

Ref(c, r) ==
  [col |-> c, row |-> r, sp |-> FALSE]

\* _numToChar(_charToNum(letters) + d) as a column number; the loop of
\* _numToChar runs while num > 0, so a number <= 0 gives the empty letter run
ColPlus(c, d) ==
  IF c + d > 0 THEN c + d ELSE 0

\* splitRef: its expression finds no column letters in a text with a blank
\* between the letters and the digits, and takes the digits alone
splitRef(ref) ==
  [col |-> IF ref.sp THEN 0 ELSE ref.col, row |-> ref.row]

\* joinRef of {row, col}
joinRef(c, r) ==
  [col |-> c, row |-> r, sp |-> FALSE]

\* lodash upperCase(ref) splits the text into words (a letter run, a digit
\* run) and joins them with a blank
upperCaseRef(ref) ==
  [ref EXCEPT !.sp = (ref.col # 0)]

nextCol(ref) ==
  LET u == upperCaseRef(ref)
  IN  IF u.col = 0 THEN u ELSE [u EXCEPT !.col = u.col + 1]

nextRow(ref) ==
  LET u == upperCaseRef(ref)
  IN  [u EXCEPT !.row = u.row + 1]

Range(a, b) ==
  [s |-> a, e |-> b]

isWithin(ref, startRef, endRef) ==
  LET start == splitRef(startRef)
      end == splitRef(endRef)
      target == splitRef(ref)
  IN  /\ start.row <= target.row
      /\ target.row <= end.row
      /\ start.col <= target.col
      /\ target.col <= end.col

\* ------------------------------------------------------------ cells, rows
\* A cell (c element): ref its r attribute, t its t attribute ("" = none),
\* hasV/v its v child and the text of it, f the texts of its f children,
\* ph tells that the element is the one pushed to cellsForsubstituteTable.

Cell(ref, t, hasV, v, f) ==
  [ref |-> ref, t |-> t, hasV |-> hasV, v |-> v, f |-> f, ph |-> FALSE]

\* cloneElement(cell): a new element with the attributes and children copied
cloneElement(cell) ==
  [cell EXCEPT !.ph = FALSE]

\* a row (row element): r its number, spans = <<lo, hi>> or <<>> (no spans)
Row(r, spans, cells) ==
  [r |-> r, spans |-> spans, cells |-> cells]

updateRowSpan(row, cellsInserted) ==
  IF cellsInserted # 0 /\ row.spans # <<>>
    THEN [row EXCEPT !.spans = <<row.spans[1], row.spans[2] + cellsInserted>>]
    ELSE row

\* --------------------------------------------------------- shared strings
\* sst is this.sharedStrings (index i of the code is sst[i + 1]); lookup is
\* this.sharedStringsLookup.

\* sharedStringsLookup is a plain object ({}): reading a key it does not
\* own gives the property inherited from Object.prototype when there is one
InheritedKeys ==
  {<<"constructor">>}

\* this.sharedStringsLookup[s] !== undefined
LookupDefined(h, s) ==
  s \in DOMAIN h.lookup \/ s \in InheritedKeys

\* this.sharedStringsLookup[s] when it is defined: the index, or NaN for an
\* inherited property (a function, which the callers turn into a number)
LookupGet(h, s) ==
  IF s \in DOMAIN h.lookup THEN h.lookup[s] ELSE NaN

\* this.sharedStringsLookup[s] = idx
LookupSet(lookup, s, idx) ==
  [x \in DOMAIN lookup \cup {s} |-> IF x = s THEN idx ELSE lookup[x]]

\* addSharedString: the new h; the index it returns is Len(h.sst)
addSharedString(h, s) ==
  [h EXCEPT !.sst = Append(h.sst, s),
            !.lookup = LookupSet(h.lookup, s, Len(h.sst))]

\* stringIndex: [h, idx]
stringIndex(h, s) ==
  IF LookupDefined(h, s) THEN [h |-> h, idx |-> LookupGet(h, s)]
  ELSE [h |-> addSharedString(h, s), idx |-> Len(h.sst)]

\* replaceString(oldString, newString): [h, idx]; an idx that is no index
\* makes the assignment to this.sharedStrings[idx] leave the list as it is
replaceString(h, oldString, newString) ==
  IF ~LookupDefined(h, oldString)
    THEN [h |-> addSharedString(h, newString), idx |-> Len(h.sst)]
    ELSE With(LookupGet(h, oldString), LAMBDA idx :
           [h |-> [h EXCEPT
                     !.sst = IF idx >= 0 THEN [@ EXCEPT ![idx + 1] = newString]
                             ELSE @,
                     !.lookup = LookupSet(
                                  [x \in DOMAIN h.lookup \ {oldString} |->
                                     h.lookup[x]],
                                  newString, idx)],
            idx |-> idx])

\* insertCellValue that leaves the type attribute on a formula cell
insertCellValueKeepType(h, cell, sub) ==
  IF sub.k = "str" /\ Len(sub.s) > 0 /\ sub.s[1] = "="
    THEN [h |-> h, cell |-> [cell EXCEPT !.f = <<Tail(sub.s)>> \o cell.f],
          ret |-> Tail(sub.s)]
  ELSE IF ~cell.hasV
    THEN [h |-> [h EXCEPT !.err = TRUE], cell |-> cell, ret |-> Stringify(sub)]
  ELSE IF sub.k = "num"
    THEN [h |-> h, cell |-> [cell EXCEPT !.t = "", !.v = Stringify(sub)],
          ret |-> Stringify(sub)]
  ELSE IF sub.k = "bool"
    THEN [h |-> h, cell |-> [cell EXCEPT !.t = "b", !.v = Stringify(sub)],
          ret |-> Stringify(sub)]
  ELSE [h |-> stringIndex(h, Stringify(sub)).h,
        cell |-> [cell EXCEPT !.t = "s",
                              !.v = NumToStr(stringIndex(h, Stringify(sub)).idx)],
        ret |-> Stringify(sub)]

\* insertCellValue(cell, substitution): [h, cell, ret]; a cell without a v
\* child makes cellValue null and the assignment to its text throw
insertCellValue(h, cell, sub) ==
  LET stringified == Stringify(sub)
  IN  IF sub.k = "str" /\ Len(sub.s) > 0 /\ sub.s[1] = "="
        THEN [h |-> h,
              cell |-> [cell EXCEPT !.f = <<Tail(sub.s)>> \o cell.f, !.t = ""],
              ret |-> Tail(sub.s)]
      ELSE IF ~cell.hasV
        THEN [h |-> [h EXCEPT !.err = TRUE], cell |-> cell, ret |-> stringified]
      ELSE IF sub.k = "num"
        THEN [h |-> h, cell |-> [cell EXCEPT !.t = "", !.v = stringified],
              ret |-> stringified]
      ELSE IF sub.k = "bool"
        THEN [h |-> h, cell |-> [cell EXCEPT !.t = "b", !.v = stringified],
              ret |-> stringified]
      ELSE LET si == stringIndex(h, stringified)
           IN  [h |-> si.h,
                cell |-> [cell EXCEPT !.t = "s", !.v = NumToStr(si.idx)],
                ret |-> stringified]

\* substituteScalar(cell, string, placeholder, substitution): [h, cell, ret]
substituteScalar(h, cell, string, placeholder, sub) ==
  IF placeholder.full THEN insertCellValue(h, cell, sub)
  ELSE LET newString == Replace(string, placeholder.placeholder, Stringify(sub))
       IN  insertCellValue(h, [cell EXCEPT !.t = "s"], Str(newString))

RECURSIVE ArrayCells(_, _, _, _, _)
\* the loop of substituteArray from element i on: [h, cells]
ArrayCells(h, cell, list, i, currentCell) ==
  IF i > Len(list) THEN [h |-> h, cells |-> <<>>]
  ELSE LET cur == IF i > 1 THEN nextCol(currentCell) ELSE currentCell
       IN  With(insertCellValue(h, cloneElement(cell), list[i]), LAMBDA ins :
             With(ArrayCells(ins.h, cell, list, i + 1, cur), LAMBDA rest :
               [h |-> rest.h,
                cells |-> <<[ins.cell EXCEPT !.ref = cur]>> \o rest.cells]))

\* substituteArray(cells, cell, substitution): [h, cells, n]
substituteArray(h, cells, cell, list) ==
  With(ArrayCells(h, cell, list, 1, cell.ref), LAMBDA r :
    [h |-> r.h, cells |-> cells \o r.cells, n |-> Len(list) - 1])

\* ------------------------------------------------------------ lodash get

\* get(substitutions, name, ""): the default stands for a missing name
GetName(subs, name) ==
  IF name \in DOMAIN subs /\ subs[name].k # "undef" THEN subs[name]
  ELSE Str(<<>>)

\* element[key]: the field of an object, undefined otherwise
Field(element, key) ==
  IF element.k = "rec" /\ key = <<"k">> /\ element.items # <<>>
    THEN element.items[1]
    ELSE Undef

\* get(element, key, "")
GetField(element, key) ==
  IF Field(element, key).k # "undef" THEN Field(element, key) ELSE Str(<<>>)

\* get(substitutions, name + "." + key)
GetPath(subs, name, key) ==
  IF name \in DOMAIN subs THEN Field(subs[name], key) ELSE Undef

\* value == ""  (loose equality)
LooseEqEmpty(v) ==
  \/ v.k = "str" /\ v.s = <<>>
  \/ v.k \in {"num", "bool"} /\ v.n = 0
  \/ v.k = "list" /\ v.items = <<>>

\* substitution == null || substitution == ""
LooseEmpty(v) ==
  v.k = "undef" \/ LooseEqEmpty(v)

\* ------------------------------------------------------ drawing and images
\* h.img: loaded = the pass holds a drawing object; hasElem = the sheet has a
\* drawing element; srels = ids of the sheet's relationships; drels = ids of
\* the drawing's relationships; media = numbers of xl/media/image<n>.jpg in
\* archive order; dfiles = numbers of xl/drawings/drawing<n>.xml; anchors =
\* the anchors of the drawing part.

SeqMax(q) ==
  IF q = <<>> THEN 0 ELSE CHOOSE x \in {q[i] : i \in 1..Len(q)} :
                            \A j \in 1..Len(q) : q[j] <= x

\* findMaxId: the largest numeric suffix + 1
findMaxId(ids) ==
  SeqMax(ids) + 1

\* findMaxFileId: the reducer keeps a name (a string) as accumulator and
\* reads its undefined name property, so the last file listed wins
findMaxFileId(files) ==
  IF files = <<>> THEN 1 ELSE files[Len(files)] + 1

\* loadSheetRels that returns null when the archive has no such part
loadSheetRelsOrNull(relsPart) ==
  [present |-> relsPart, fromArchive |-> relsPart]

\* loadSheetRels: the part of the archive, or initSheetRels() when the archive
\* has none; never null
loadSheetRels(relsPart) ==
  [present |-> TRUE, fromArchive |-> relsPart]

\* loadDrawing / initDrawing
loadDrawing(h) ==
  IF h.img.hasElem THEN [h EXCEPT !.img.loaded = TRUE]
  ELSE [h EXCEPT !.img.loaded = TRUE,
                 !.img.hasElem = TRUE,
                 !.img.created = TRUE,
                 !.img.srels = Append(h.img.srels, findMaxId(h.img.srels)),
                 !.img.dfiles = Append(h.img.dfiles, findMaxFileId(h.img.dfiles)),
                 !.img.anchors = <<>>,
                 !.img.drels = <<>>]

\* archive.file(name, data): replaces the file of that name or adds one
PutFile(files, n) ==
  IF \E i \in 1..Len(files) : files[i] = n THEN files ELSE Append(files, n)

\* imageToBuffer succeeds on bytes that image-size can decode
Decodable(v) ==
  v.k = "img" /\ v.n = 1

\* cellInMergeCells(cell, mergeCell)
cellInMergeCells(ref, m) ==
  LET c == splitRef(ref)
      a == splitRef(m.s)
      b == splitRef(m.e)
  IN  /\ c.col >= a.col /\ c.col <= b.col
      /\ c.row >= a.row /\ c.row <= b.row

\* the width of a column and the height of a row of the sheet, in the unit of
\* the image extent (columnWidthToEMUs, rowHeightToEMUs of the defaults)
ColWidthEmu ==
  4

RowHeightEmu ==
  3

\* the natural extent of a decodable image (pixelsToEMUs of its size)
ImageWidthEmu ==
  8

ImageHeightEmu ==
  6

\* getWidthMergeCell / getHeightMergeCell, converted: [mw, mh]
MergeEmu(m) ==
  [mw |-> (splitRef(m.e).col - splitRef(m.s).col + 1) * ColWidthEmu,
   mh |-> (splitRef(m.e).row - splitRef(m.s).row + 1) * RowHeightEmu]

\* the regions [mw, mh] of the merged cells that hold the cell, in order
RegionsOf(merges, ref) ==
  [i \in 1..Len(SelectSeq(merges, LAMBDA m : cellInMergeCells(ref, m))) |->
     MergeEmu(SelectSeq(merges, LAMBDA m : cellInMergeCells(ref, m))[i])]

\* Math.floor(a / (b / c)) in floating point: the quotient b / c is rounded,
\* so a quotient whose exact value a * c / b is an integer may come out just
\* below it; loss (0 or 1) is what the rounding takes off in that case
FloorQuot(a, b, c, loss) ==
  IF (a * c) % b = 0 THEN (a * c) \div b - loss ELSE (a * c) \div b

\* the fit of [w, h] to one region: both axes divided by the larger rate
FitRegion(e, reg, loss) ==
  IF e.w * reg.mh > e.h * reg.mw
    \* widthRate > heightRate: floor(w / (w / mw)), floor(h / (w / mw))
    THEN [w |-> FloorQuot(e.w, e.w, reg.mw, loss.w),
          h |-> FloorQuot(e.h, e.w, reg.mw, loss.h)]
    ELSE [w |-> FloorQuot(e.w, e.h, reg.mh, loss.w),
          h |-> FloorQuot(e.h, e.h, reg.mh, loss.h)]

RECURSIVE FitRegions(_, _, _, _)
FitRegions(e, regions, i, loss) ==
  IF i > Len(regions) THEN e
  ELSE FitRegions(FitRegion(e, regions[i], loss), regions, i + 1, loss)

\* the extent that applies the percentage also inside a merged region
ImageExtentScaled(w, h, regions, imageRatio, loss) ==
  LET ratio == IF imageRatio <= 0 THEN 100 ELSE imageRatio
      e == FitRegions([w |-> w, h |-> h], regions, 1, loss)
  IN  [w |-> (e.w * ratio) \div 100, h |-> (e.h * ratio) \div 100]

\* the extent of the anchor, lines 1394-1428: [w, h]; imageRatio = 0 stands for
\* every falsy option value
ImageExtent(w, h, regions, imageRatio, loss) ==
  IF regions # <<>> THEN FitRegions([w |-> w, h |-> h], regions, 1, loss)
  ELSE LET ratio == IF imageRatio <= 0 THEN 100 ELSE imageRatio
       IN  [w |-> (w * ratio) \div 100, h |-> (h * ratio) \div 100]

\* substituteImage after its early return: the relationship, the decoding,
\* the media file, the size, the anchor
EmbedImage(h1, ref, sub, opt) ==
  LET maxId == findMaxId(h1.img.drels)
      maxFildId == findMaxFileId(h1.img.media)
      at == splitRef(ref)
  IN  With([h1 EXCEPT !.img.drels = Append(@, maxId)], LAMBDA h2 :
        \* try { imageToBuffer } catch { hook or rethrow }
        IF ~Decodable(sub) /\ ~opt.handleImageError THEN [h2 EXCEPT !.err = TRUE]
        ELSE With([h2 EXCEPT !.hooks = IF Decodable(sub) THEN @ ELSE @ + 1,
                             \* archive.file("xl/media/image<n>.jpg", ...)
                             !.img.media = PutFile(@, maxFildId)],
                  LAMBDA h4 :
                    \* sizeOf(substitution) throws on what it cannot decode
                    IF ~Decodable(sub) THEN [h4 EXCEPT !.err = TRUE]
                    ELSE [h4 EXCEPT !.img.anchors =
                            Append(@, [kind |-> "one", col |-> at.col - 1,
                                       row |-> at.row - 1, toRow |-> at.row - 1,
                                       rid |-> maxId,
                                       ext |-> ImageExtent(
                                                 ImageWidthEmu, ImageHeightEmu,
                                                 RegionsOf(h1.merges, ref),
                                                 opt.imageRatio,
                                                 [w |-> 0, h |-> 0])])]))

\* substituteImage(cell, string, placeholder, substitution, drawing): [h, cell]
substituteImage(h, cell, string, placeholder, sub, opt) ==
  With(substituteScalar(h, cell, string, placeholder, Str(<<>>)), LAMBDA sc :
    IF LooseEmpty(sub) THEN [h |-> sc.h, cell |-> sc.cell]
    ELSE IF ~sc.h.img.loaded
      THEN [h |-> [sc.h EXCEPT !.err = TRUE], cell |-> sc.cell]
    ELSE [h |-> EmbedImage(sc.h, sc.cell.ref, sub, opt), cell |-> sc.cell])

\* --------------------------------------------------------- structural fix-up

ShiftCols(range, n) ==
  LET a == splitRef(range.s)
      b == splitRef(range.e)
  IN  Range(joinRef(ColPlus(a.col, n), a.row), joinRef(ColPlus(b.col, n), b.row))

ShiftRows(range, n) ==
  LET a == splitRef(range.s)
      b == splitRef(range.e)
  IN  Range(joinRef(a.col, a.row + n), joinRef(b.col, b.row + n))

\* pushRight that moves the start of a merged cell only
PushRightMergesStartOnly(merges, cellRef, numCols) ==
  [i \in 1..Len(merges) |->
     IF /\ splitRef(merges[i].s).row = cellRef.row
        /\ cellRef.col < splitRef(merges[i].s).col
       THEN Range(ShiftCols(merges[i], numCols).s, merges[i].e)
       ELSE merges[i]]

\* pushRight, the merged cells
PushRightMerges(merges, cellRef, numCols) ==
  [i \in 1..Len(merges) |->
     IF /\ splitRef(merges[i].s).row = cellRef.row
        /\ cellRef.col < splitRef(merges[i].s).col
       THEN ShiftCols(merges[i], numCols)
       ELSE merges[i]]

\* pushRight, the defined names: a name is [isRange, sheet, s, e]
PushRightNames(names, cellRef, numCols) ==
  [i \in 1..Len(names) |->
     IF /\ splitRef(names[i].s).row = cellRef.row
        /\ cellRef.col < splitRef(names[i].s).col
       THEN LET sh == ShiftCols(Range(names[i].s, names[i].e), numCols)
            IN  [names[i] EXCEPT !.s = sh.s, !.e = sh.e]
       ELSE names[i]]

pushRight(h, currentCell, numCols) ==
  LET cellRef == splitRef(currentCell)
  IN  [h EXCEPT !.merges = PushRightMerges(h.merges, cellRef, numCols),
                !.names = PushRightNames(h.names, cellRef, numCols)]

RECURSIVE MergeClones(_, _, _)
\* the clones of merge cell m, offsets k..n
MergeClones(m, k, n) ==
  IF k > n THEN <<>> ELSE <<ShiftRows(m, k)>> \o MergeClones(m, k + 1, n)

RECURSIVE AllMergeClones(_, _, _, _)
AllMergeClones(merges, i, currentRow, numRows) ==
  IF i > Len(merges) THEN <<>>
  ELSE (IF splitRef(merges[i].s).row = currentRow
          THEN MergeClones(merges[i], 1, numRows)
          ELSE <<>>)
       \o AllMergeClones(merges, i + 1, currentRow, numRows)

\* pushDown, the merged cells, moving also the regions that start on the row
PushDownMergesFromRow(merges, currentRow, numRows) ==
  [i \in 1..Len(merges) |->
     IF splitRef(merges[i].s).row >= currentRow
       THEN ShiftRows(merges[i], numRows)
       ELSE merges[i]]
  \o AllMergeClones(merges, 1, currentRow, numRows)

\* pushDown, the merged cells
PushDownMerges(merges, currentRow, numRows) ==
  [i \in 1..Len(merges) |->
     IF splitRef(merges[i].s).row > currentRow
       THEN ShiftRows(merges[i], numRows)
       ELSE merges[i]]
  \o AllMergeClones(merges, 1, currentRow, numRows)

\* pushDown, the tables: a table is [ref, hasAf, af, totals, cols]
PushDownTables(tables, currentRow, numRows) ==
  [i \in 1..Len(tables) |->
     IF splitRef(tables[i].ref.s).row > currentRow
       THEN LET nr == ShiftRows(tables[i].ref, numRows)
            IN  [tables[i] EXCEPT !.ref = nr,
                                  !.af = IF tables[i].hasAf THEN nr ELSE @]
       ELSE tables[i]]

\* pushDown, one defined name
PushDownName(nm, currentRow, numRows, opt, sheetName) ==
  IF nm.isRange
    THEN LET a == splitRef(nm.s)
             b == splitRef(nm.e)
             moved == a.row > currentRow
             n1 == IF moved
                     THEN [nm EXCEPT !.s = joinRef(a.col, a.row + numRows),
                                     !.e = joinRef(b.col, b.row + numRows)]
                     ELSE nm
             a1 == IF moved THEN a.row + numRows ELSE a.row
             b1 == IF moved THEN b.row + numRows ELSE b.row
         IN  IF /\ opt.pushDownPageBreakOnTableSubstitution
                /\ sheetName = nm.sheet
                /\ b1 > currentRow
               THEN [n1 EXCEPT !.s = joinRef(a.col, a1),
                               !.e = joinRef(b.col, b1 + numRows)]
               ELSE n1
    ELSE LET a == splitRef(nm.s)
         IN  IF a.row > currentRow
               THEN [nm EXCEPT !.s = joinRef(a.col, a.row + numRows),
                               !.e = joinRef(a.col, a.row + numRows)]
               ELSE nm

pushDown(h, currentRow, numRows, opt, sheetName) ==
  [h EXCEPT !.merges = PushDownMerges(h.merges, currentRow, numRows),
            !.tables = PushDownTables(h.tables, currentRow, numRows),
            !.names = [i \in 1..Len(h.names) |->
                         PushDownName(h.names[i], currentRow, numRows, opt,
                                      sheetName)]]

\* ------------------------------------------------------------ substituteTable

\* the table definitions whose range holds the cell (parentTables)
ParentTables(tables, cell) ==
  {t \in 1..Len(tables) : isWithin(cell.ref, tables[t].ref.s, tables[t].ref.e)}

\* "expand named table range if necessary", for every parent table
ExpandTables(tables, parents, newCellRef) ==
  [t \in 1..Len(tables) |->
     IF t \in parents /\ ~isWithin(newCellRef, tables[t].ref.s, tables[t].ref.e)
       THEN LET nr == Range(tables[t].ref.s, nextRow(tables[t].ref.e))
            IN  [tables[t] EXCEPT !.ref = nr,
                                  !.af = IF tables[t].hasAf THEN nr ELSE @]
       ELSE tables[t]]

\* the callback of substitution.forEach for the first element (idx = 0);
\* st = [h, cell, cells, ntr, n]
TableFirst(st, value, placeholder, opt) ==
  IF value.k = "list"
    THEN With(substituteArray(st.h, st.cells, st.cell, value.items), LAMBDA a :
           [st EXCEPT !.h = a.h, !.cells = a.cells, !.n = a.n])
  ELSE IF placeholder.subType = <<"image">> /\ ~LooseEqEmpty(value)
    THEN With(substituteImage(st.h, st.cell, placeholder.placeholder,
                              placeholder, value, opt),
              LAMBDA im : [st EXCEPT !.h = im.h, !.cell = im.cell])
  ELSE With(insertCellValue(st.h, st.cell, value), LAMBDA ins :
         [st EXCEPT !.h = ins.h, !.cell = ins.cell])

\* the callback for element idx >= 1 (i = idx + 1 is its position)
TableNext(st, i, value, row, placeholder, parents, opt) ==
  LET reuse == (i - 2 < Len(st.ntr))
      newRow == IF reuse THEN st.ntr[i - 1]
                ELSE Row(row.r + Len(st.ntr) + 1, row.spans, <<>>)
      newCell0 == cloneElement(st.cell)
      newCell == [newCell0 EXCEPT
                    !.ref = joinRef(splitRef(newCell0.ref).col, newRow.r)]
  IN  With(IF value.k = "list"
             THEN With(substituteArray(st.h, <<>>, newCell, value.items),
                       LAMBDA a :
                         [h |-> a.h,
                          row |-> updateRowSpan(
                                    [newRow EXCEPT !.cells = @ \o a.cells], a.n)])
           ELSE IF placeholder.subType = <<"image">> /\ ~LooseEqEmpty(value)
             THEN [h |-> substituteImage(st.h, newCell, placeholder.placeholder,
                                         placeholder, value, opt).h,
                   row |-> newRow]
           ELSE With(insertCellValue(st.h, newCell, value), LAMBDA ins :
                  [h |-> ins.h,
                   \* "Add the cell that previously held the placeholder"
                   row |-> [newRow EXCEPT !.cells = Append(@, ins.cell)]]),
           LAMBDA r :
             [st EXCEPT !.h = [r.h EXCEPT !.tables =
                                 ExpandTables(@, parents, newCell.ref)],
                        !.ntr = IF reuse THEN [st.ntr EXCEPT ![i - 1] = r.row]
                                ELSE Append(st.ntr, r.row)])

RECURSIVE TableLoop(_, _, _, _, _, _, _, _)
TableLoop(st, i, list, key, row, placeholder, parents, opt) ==
  IF i > Len(list) \/ st.h.err THEN st
  ELSE LET value == GetField(list[i], key)
           st1 == IF i = 1 THEN TableFirst(st, value, placeholder, opt)
                  ELSE TableNext(st, i, value, row, placeholder, parents, opt)
       IN  TableLoop(st1, i + 1, list, key, row, placeholder, parents, opt)

\* substituteTable(row, newTableRows, cells, cell, namedTables, substitution,
\* key, placeholder, drawing): [h, cell, cells, ntr, n]
substituteTable(h, row, ntr, cells, cell, list, key, placeholder, opt) ==
  LET st == [h |-> h, cell |-> cell, cells |-> cells, ntr |-> ntr, n |-> 0]
  IN  IF Len(list) = 0
        THEN [st EXCEPT !.cell = [cell EXCEPT !.t = "", !.hasV = FALSE,
                                              !.v = <<>>, !.f = <<>>]]
        ELSE TableLoop(st, 1, list, key, row, placeholder,
                       ParentTables(h.tables, cell), opt)

\* ------------------------------------------------ the pass: one cell
\* cx = [h, cell, string, cells, ntr, ins, append]: the variables the callback
\* of extractPlaceholders(string).forEach reads and writes

PlaceholderTable(cx, p, sub, row, opt, rels) ==
  LET h1 == IF p.subType = <<"image">> /\ ~cx.h.img.loaded
              THEN IF rels.present THEN loadDrawing(cx.h)
                   ELSE [cx.h EXCEPT !.logs = @ + 1]
              ELSE cx.h
      app == IF Len(sub.items) # 0
               THEN IF Field(sub.items[1], p.key).k = "list" THEN FALSE
                    ELSE IF Len(sub.items) = 1 THEN TRUE
                    ELSE cx.append
               ELSE cx.append
  IN  With(substituteTable(h1, row, cx.ntr, cx.cells,
                           [cx.cell EXCEPT !.ph = TRUE], sub.items, p.key, p, opt),
           LAMBDA st :
             [cx EXCEPT !.h = IF st.n # 0 /\ ~st.h.err
                                THEN pushRight(st.h, st.cell.ref, st.n)
                                ELSE st.h,
                        !.cell = st.cell, !.cells = st.cells, !.ntr = st.ntr,
                        !.ins = @ + st.n, !.append = app])

PlaceholderArray(cx, sub) ==
  With(substituteArray(cx.h, cx.cells, cx.cell, sub.items), LAMBDA a :
    [cx EXCEPT !.h = IF a.n # 0 THEN pushRight(a.h, cx.cell.ref, a.n) ELSE a.h,
               !.cells = a.cells, !.ins = @ + a.n, !.append = FALSE])

PlaceholderImage(cx, p, sub, opt, rels) ==
  IF rels.present
    THEN With(substituteImage(IF ~cx.h.img.loaded THEN loadDrawing(cx.h) ELSE cx.h,
                              cx.cell, cx.string, p, sub, opt),
              LAMBDA im : [cx EXCEPT !.h = im.h, !.cell = im.cell, !.string = <<>>])
    ELSE [cx EXCEPT !.h.logs = @ + 1]

PlaceholderScalar(cx, p, sub, subs) ==
  With(substituteScalar(cx.h, cx.cell, cx.string, p,
                        IF p.hasKey THEN GetPath(subs, p.name, p.key) ELSE sub),
       LAMBDA sc : [cx EXCEPT !.h = sc.h, !.cell = sc.cell, !.string = sc.ret])

\* the body of the callback, lines 397-510
PlaceholderStep(cx, p, row, subs, opt, rels) ==
  LET sub == GetName(subs, p.name)
  IN  IF p.full /\ p.type = <<"table">> /\ sub.k = "list"
        THEN PlaceholderTable(cx, p, sub, row, opt, rels)
      ELSE IF p.full /\ p.type = <<"normal">> /\ sub.k = "list"
        THEN PlaceholderArray(cx, sub)
      ELSE IF p.type = <<"image">> /\ p.full
        THEN PlaceholderImage(cx, p, sub, opt, rels)
      ELSE PlaceholderScalar(cx, p, sub, subs)

RECURSIVE PlaceholderLoop(_, _, _, _, _, _, _)
PlaceholderLoop(cx, phs, i, row, subs, opt, rels) ==
  IF i > Len(phs) \/ cx.h.err THEN cx
  ELSE PlaceholderLoop(PlaceholderStep(cx, phs[i], row, subs, opt, rels),
                       phs, i + 1, row, subs, opt, rels)

\* getCurrentRow that leaves out the rows inserted above
getCurrentRowStale(row, rowsInserted) ==
  row.r

\* getCurrentRow(row, rowsInserted)
getCurrentRow(row, rowsInserted) ==
  row.r + rowsInserted

\* getCurrentCell(cell, currentRow, cellsInserted)
getCurrentCell(cell, currentRow, cellsInserted) ==
  joinRef(ColPlus(splitRef(cell.ref).col, cellsInserted), currentRow)

\* the shared string a string cell refers to: [ok, string]
CellString(sst, cell) ==
  LET stringIndex1 == ParseInt(cell.v)
  IN  IF stringIndex1 >= 0 /\ stringIndex1 < Len(sst)
        THEN [ok |-> TRUE, string |-> sst[stringIndex1 + 1]]
        ELSE [ok |-> FALSE, string |-> <<>>]

\* the callback of row.findall("c").forEach, lines 380-517: the new
\* [h, cells, ntr, ins]
CellStep(hh, ac, cell0, row, subs, opt, rels) ==
  LET cell == [cell0 EXCEPT !.ref = getCurrentCell(cell0, row.r, ac.ins)]
      cs == CellString(hh.sst, cell)
      cx0 == [h |-> hh, cell |-> cell, string |-> cs.string, cells |-> ac.cells,
              ntr |-> ac.ntr, ins |-> ac.ins, append |-> TRUE]
  IN  IF cell.t # "s"
        THEN [h |-> hh, cells |-> Append(ac.cells, cell), ntr |-> ac.ntr,
              ins |-> ac.ins]
      ELSE IF ~cell.hasV
        THEN [h |-> [hh EXCEPT !.err = TRUE], cells |-> ac.cells, ntr |-> ac.ntr,
              ins |-> ac.ins]
      ELSE IF ~cs.ok
        THEN [h |-> hh, cells |-> ac.cells, ntr |-> ac.ntr, ins |-> ac.ins]
      ELSE With(PlaceholderLoop(cx0, extractPlaceholders(cs.string), 1, row, subs,
                                opt, rels),
                LAMBDA cx :
                  [h |-> cx.h,
                   cells |-> IF cx.append THEN Append(cx.cells, cx.cell)
                             ELSE cx.cells,
                   ntr |-> cx.ntr, ins |-> cx.ins])

\* ------------------------------------------------ the pass: end of a row

\* _moveTwoCellAnchor / _moveImage
moveAllImages(anchors, fromRow, nbRow, opt) ==
  [i \in 1..Len(anchors) |->
     IF /\ anchors[i].kind = "two"
        /\ IF opt.moveSameLineImages THEN anchors[i].row + 1 >= fromRow
           ELSE anchors[i].row + 1 > fromRow
       THEN [anchors[i] EXCEPT !.row = @ + nbRow, !.toRow = @ + nbRow]
       ELSE anchors[i]]

RECURSIVE InsertByCol(_, _)
\* c placed after the cells of q whose column is not greater (a stable sort)
InsertByCol(q, c) ==
  IF q = <<>> THEN <<c>>
  ELSE IF splitRef(q[Len(q)].ref).col <= splitRef(c.ref).col THEN Append(q, c)
  ELSE Append(InsertByCol(SubSeq(q, 1, Len(q) - 1), c), q[Len(q)])

RECURSIVE SortByCol(_)
\* row.findall("c").sort(by column number)
SortByCol(q) ==
  IF q = <<>> THEN <<>>
  ELSE InsertByCol(SortByCol(SubSeq(q, 1, Len(q) - 1)), q[Len(q)])

\* one generated row at the end of its original row, lines 550-573
FinishNewRow(newRow, cellsOverTable, opt) ==
  IF opt.subsituteAllTableRow
    THEN [newRow EXCEPT !.cells = SortByCol(
            @ \o [i \in 1..Len(cellsOverTable) |->
                    [cloneElement(cellsOverTable[i]) EXCEPT
                       !.ref = joinRef(splitRef(cellsOverTable[i].ref).col,
                                       newRow.r)]])]
    ELSE newRow

\* lines 519-581: [h, rows, tci], rows = the row followed by its generated rows
RowEnd(hh, ac, row, tci, opt, rels, sheetName) ==
  LET row1 == IF ac.ins # 0
                THEN updateRowSpan([row EXCEPT !.cells = ac.cells], ac.ins)
                ELSE [row EXCEPT !.cells = ac.cells]
      n == Len(ac.ntr)
      h1 == IF n > 0 /\ opt.moveImages /\ rels.present
              THEN LET l == IF ~hh.img.loaded THEN loadDrawing(hh) ELSE hh
                   IN  [l EXCEPT !.img.anchors =
                          moveAllImages(l.img.anchors, row.r, n, opt)]
              ELSE hh
      cellsOverTable == SelectSeq(row1.cells, LAMBDA c : ~c.ph)
      newRows == [k \in 1..n |-> FinishNewRow(ac.ntr[k], cellsOverTable, opt)]
  IN  [h |-> IF n > 0 THEN pushDown(h1, row.r, n, opt, sheetName) ELSE h1,
       rows |-> <<row1>> \o newRows,
       tci |-> IF ac.ins # 0 /\ ac.ins > tci THEN ac.ins ELSE tci]

\* ------------------------------------------------ the pass: the end
\* substituteTableColumnHeaders, one column name: [names, inserted, err]

HeaderCol(name, subs) ==
  With(extractPlaceholders(name), LAMBDA phs :
    LET defined == {i \in 1..Len(phs) :
                      phs[i].name \in DOMAIN subs /\ subs[phs[i].name].k # "undef"}
        ph == phs[Min(defined)]
        sub == subs[ph.name]
    IN  IF defined = {} THEN [names |-> <<name>>, inserted |-> 0, err |-> FALSE]
        ELSE IF ph.full /\ ph.type = <<"normal">> /\ sub.k = "list"
          THEN IF sub.items = <<>>
                 THEN [names |-> <<name>>, inserted |-> 0, err |-> FALSE]
                 ELSE [names |-> [j \in 1..Len(sub.items) |->
                                    Stringify(sub.items[j])],
                       inserted |-> Len(sub.items) - 1, err |-> FALSE]
        \* name = name.replace(...) assigns to a const and throws
        ELSE [names |-> <<name>>, inserted |-> 0, err |-> TRUE])

RECURSIVE HeaderCols(_, _, _)
HeaderCols(cols, i, subs) ==
  IF i > Len(cols) THEN [names |-> <<>>, inserted |-> 0, err |-> FALSE]
  ELSE With(HeaderCol(cols[i], subs), LAMBDA c :
         IF c.err THEN c
         ELSE With(HeaderCols(cols, i + 1, subs), LAMBDA rest :
                [names |-> c.names \o rest.names,
                 inserted |-> c.inserted + rest.inserted, err |-> rest.err]))

RECURSIVE NextColN(_, _)
NextColN(ref, n) ==
  IF n = 0 THEN ref ELSE NextColN(nextCol(ref), n - 1)

\* substituteTableColumnHeaders, one table: [t, err]
HeaderTable(t, subs) ==
  With(HeaderCols(t.cols, 1, subs), LAMBDA hc :
    LET end1 == NextColN(t.ref.e, hc.inserted)
        t1 == IF hc.inserted > 0
                THEN [t EXCEPT !.cols = hc.names,
                               !.ref = Range(t.ref.s, end1),
                               !.af = IF t.hasAf THEN Range(t.ref.s, end1) ELSE @]
                ELSE [t EXCEPT !.cols = hc.names]
        tableStart == splitRef(t.ref.s)
        tableEnd == splitRef(end1)
        t2 == IF t.totals
                THEN [t1 EXCEPT
                        !.af = IF t.hasAf
                                 THEN Range(joinRef(tableStart.col, tableStart.row),
                                            joinRef(tableEnd.col, tableEnd.row))
                                 ELSE @,
                        !.ref = Range(joinRef(tableStart.col, tableStart.row),
                                      joinRef(tableEnd.col, tableEnd.row + 1))]
                ELSE t1
    IN  [t |-> IF hc.err THEN t ELSE t2, err |-> hc.err])

substituteTableColumnHeaders(tables, subs) ==
  [tables |-> [i \in 1..Len(tables) |-> HeaderTable(tables[i], subs).t],
   err |-> \E i \in 1..Len(tables) : HeaderTable(tables[i], subs).err]

\* "Update <dimension /> if we added rows or columns"; dim = [has, ref]
UpdateDimension(dim, tri, tci) ==
  IF dim.has /\ (tri > 0 \/ tci > 0)
    THEN LET e == splitRef(dim.ref.e)
         IN  [dim EXCEPT !.ref.e = joinRef(ColPlus(e.col, tci), e.row + tri)]
    ELSE dim

\* "forcing the values in formulas to be recalculated"
ClearCached(rows) ==
  [i \in 1..Len(rows) |->
     [rows[i] EXCEPT !.cells =
        [j \in 1..Len(rows[i].cells) |->
           IF rows[i].cells[j].f # <<>>
             THEN [rows[i].cells[j] EXCEPT !.hasV = FALSE, !.v = <<>>]
             ELSE rows[i].cells[j]]]]

\* ------------------------------------------------------------ the template
\* The shared strings of the template, by index from 0.

TextX ==
  <<"x">>

PhTable ==
  <<"$", "{", "table", ":", "r", ".", "k", "}">>

PhArray ==
  <<"$", "{", "a", "}">>

PhPartial ==
  <<"H", "$", "{", "a", "}">>

PhImage ==
  <<"$", "{", "image", ":", "i", "}">>

PhTableImage ==
  <<"$", "{", "table", ":", "p", ".", "k", ":", "image", "}">>

PhTwo ==
  <<"$", "{", "a", "}", "-", "$", "{", "b", "}">>

PhKey ==
  <<"H", "$", "{", "r", ".", "k", "}">>

PhTableB ==
  <<"$", "{", "table", ":", "b", ".", "k", "}">>

SST0 ==
  <<TextX, PhTable, PhArray, PhPartial, PhImage, PhTableImage, PhTwo, PhKey,
    PhTableB>>

Lookup0 ==
  [x \in {SST0[i] : i \in 1..Len(SST0)} |->
     (CHOOSE i \in 1..Len(SST0) : SST0[i] = x) - 1]

\* the text of the v child of a string cell of each kind; "bad" is an index
\* that the table has no entry for
KindIndex(kind) ==
  CASE kind = "text" -> <<"0">>
    [] kind = "tbl" -> <<"1">>
    [] kind = "arr" -> <<"2">>
    [] kind = "part" -> <<"3">>
    [] kind = "img" -> <<"4">>
    [] kind = "timg" -> <<"5">>
    [] kind = "two" -> <<"6">>
    [] kind = "key" -> <<"7">>
    [] kind = "tblb" -> <<"8">>
    [] kind = "bad" -> <<"9", "9">>

\* a cell of the template: a number cell, a formula cell with a cached value,
\* or a string cell
KindCell(kind, ref) ==
  CASE kind = "num" -> Cell(ref, "", TRUE, <<"5">>, <<>>)
    [] kind = "fml" -> Cell(ref, "", TRUE, <<"3">>, <<<<"S", "U", "M">>>>)
    [] OTHER -> Cell(ref, "s", TRUE, KindIndex(kind), <<>>)

\* the sheet: three rows; A2, B2 and A3 hold the cells under study
SheetRows(kA, kB, kC) ==
  <<Row(1, <<1, 2>>, <<KindCell("text", Ref(1, 1)), KindCell("fml", Ref(2, 1))>>),
    Row(2, <<1, 3>>, <<KindCell(kA, Ref(1, 2)), KindCell(kB, Ref(2, 2)),
                       KindCell("num", Ref(3, 2))>>),
    Row(3, <<1, 2>>, <<KindCell(kC, Ref(1, 3)), KindCell("fml", Ref(2, 3))>>)>>

Merges0 ==
  <<Range(Ref(4, 1), Ref(5, 1)), Range(Ref(4, 2), Ref(5, 2)),
    Range(Ref(6, 2), Ref(6, 3)), Range(Ref(4, 3), Ref(5, 3))>>

SheetName ==
  "Sheet1"

Names0 ==
  <<[isRange |-> FALSE, sheet |-> "Sheet1", s |-> Ref(4, 2), e |-> Ref(4, 2)],
    [isRange |-> TRUE, sheet |-> "Sheet1", s |-> Ref(1, 3), e |-> Ref(2, 3)],
    [isRange |-> TRUE, sheet |-> "Other", s |-> Ref(4, 2), e |-> Ref(5, 3)],
    [isRange |-> TRUE, sheet |-> "Sheet1", s |-> Ref(1, 1), e |-> Ref(6, 3)],
    [isRange |-> FALSE, sheet |-> "Other", s |-> Ref(2, 3), e |-> Ref(2, 3)]>>

Cols0 ==
  <<<<"c1">>, <<"c2">>, <<"c3">>>>

\* the table definitions of the sheet, by configuration
Tables0(tb) ==
  CASE tb = 0 -> <<>>
    [] tb = 1 -> <<[ref |-> Range(Ref(1, 1), Ref(3, 2)), hasAf |-> TRUE,
                    af |-> Range(Ref(1, 1), Ref(3, 2)), totals |-> FALSE,
                    cols |-> Cols0]>>
    [] tb = 2 -> <<[ref |-> Range(Ref(1, 1), Ref(3, 3)), hasAf |-> FALSE,
                    af |-> Range(Ref(1, 1), Ref(3, 3)), totals |-> FALSE,
                    cols |-> Cols0]>>
    [] tb = 3 -> <<[ref |-> Range(Ref(1, 1), Ref(3, 3)), hasAf |-> TRUE,
                    af |-> Range(Ref(1, 1), Ref(3, 2)), totals |-> TRUE,
                    cols |-> Cols0]>>

Dimension0 ==
  [has |-> TRUE, ref |-> Range(Ref(1, 1), Ref(6, 3))]

\* ------------------------------------------------------------ the inputs

MaxList ==
  3

MaxRecs ==
  3

SeqsUpTo(S, n) ==
  UNION {[1..m -> S] : m \in 0..n}

W ==
  <<"W">>

Formula ==
  <<"=", "S">>

\* values of ${a}: scalars and lists
AScalars ==
  {Str(W), Str(<<"$", "&">>), Str(Formula), Num(7), Bool(TRUE), Undef}

ALists ==
  {List(q) : q \in SeqsUpTo({Num(1), Str(W)}, MaxList)}
    \cup {List(<<Str(Formula), Num(1)>>)}

\* values of ${table:r.k}: lists of records
RLists ==
  {List(q) : q \in SeqsUpTo({Rec(<<Str(W)>>), Rec(<<Num(7)>>), Rec(<<>>)}, MaxRecs)}
    \cup {List(<<Rec(<<Str(Formula)>>), Rec(<<Num(7)>>)>>),
          List(<<Rec(<<Str(Formula)>>), Rec(<<>>)>>),
          List(<<Rec(<<List(<<Num(1), Num(2)>>)>>), Rec(<<Str(W)>>)>>),
          List(<<Rec(<<Str(W)>>), Rec(<<List(<<Num(1), Num(2)>>)>>)>>)}

\* values of ${table:p.k:image}: lists of records that hold image sources
PLists ==
  {List(<<>>), List(<<Rec(<<Img(TRUE)>>)>>),
   List(<<Rec(<<Img(TRUE)>>), Rec(<<Img(TRUE)>>)>>),
   List(<<Rec(<<Img(FALSE)>>)>>),
   List(<<Rec(<<Img(TRUE)>>), Rec(<<Img(FALSE)>>)>>),
   List(<<Rec(<<>>), Rec(<<Img(TRUE)>>)>>)}

\* values of ${image:i}
IVals ==
  {Img(TRUE), Img(FALSE), Str(<<>>), Undef}

\* values of ${b}
BVals ==
  {Str(W), Str(PhArray), Undef}

Scenario(kA, kB, kC, a, b, r, p, i, tb, all, hook, rels) ==
  [kA |-> kA, kB |-> kB, kC |-> kC, a |-> a, b |-> b, r |-> r, p |-> p, i |-> i,
   tb |-> tb, all |-> all, hook |-> hook, rels |-> rels,
   \* the options moveImages, moveSameLineImages and
   \* pushDownPageBreakOnTableSubstitution; anch: the sheet has a drawing
   mv |-> FALSE, same |-> FALSE, pb |-> FALSE, anch |-> FALSE,
   \* the name of the second table column: "c2", "text" (H${a}), "full" (${a})
   hdr |-> "c2",
   \* the media files of the archive are listed by rising number
   sorted |-> TRUE,
   \* the dimension of the sheet ends at the last column that holds a cell
   tight |-> FALSE,
   \* the sheet holds no formula cell
   plain |-> FALSE]

Uses(kA, kB, kC, kinds) ==
  {kA, kB, kC} \cap kinds # {}

\* table substitution in one or several cells, under every table definition
FamTable ==
  {Scenario(kA, kB, kC, Undef, Undef, r, Undef, Undef, tb, all, FALSE, TRUE) :
     <<kA, kB, kC, r, tb, all>> \in
       {x \in {"tbl", "text"} \X {"tbl", "num"} \X {"text", "tbl"} \X RLists
                \X (0..3) \X BOOLEAN :
          Uses(x[1], x[2], x[3], {"tbl"})}}

\* array and scalar substitution of ${a}
FamArray ==
  {Scenario(kA, kB, kC, a, Undef, Undef, Undef, Undef, 0, FALSE, FALSE, TRUE) :
     <<kA, kB, kC, a>> \in
       {x \in {"arr", "text", "part"} \X {"arr", "num"} \X {"text", "arr", "bad"}
                \X (AScalars \cup ALists) :
          Uses(x[1], x[2], x[3], {"arr", "part"})}}

\* text with one or two placeholders
FamScalar ==
  {Scenario(kA, "num", kC, a, b, Undef, Undef, Undef, 0, FALSE, FALSE, TRUE) :
     <<kA, kC, a, b>> \in
       {"part", "two"} \X {"text", "bad", "part"}
         \X (AScalars \cup {List(<<Num(1)>>)}) \X BVals}

\* images, with and without the relationships part and the error hook
FamImage ==
  {Scenario("img", "num", kC, Undef, Undef, Undef, Undef, i, 0, FALSE, hook, rels) :
     <<kC, i, hook, rels>> \in {"text", "img"} \X IVals \X BOOLEAN \X BOOLEAN}
    \cup
  {Scenario("timg", "num", "text", Undef, Undef, Undef, p, Undef, 0, all, hook, rels) :
     <<p, all, hook, rels>> \in PLists \X BOOLEAN \X BOOLEAN \X BOOLEAN}

\* text with a placeholder that names a field of ${r}
FamKey ==
  {Scenario("key", "num", kC, Undef, Undef, r, Undef, Undef, 0, FALSE, FALSE, TRUE) :
     <<kC, r>> \in {"text", "key"}
       \X {Undef, Rec(<<>>), Rec(<<Str(W)>>), Rec(<<Num(7)>>), Str(W)}}

\* a table next to an array, a text or an image in the same row or sheet
FamMixed ==
  {Scenario(kA, kB, kC, a, Undef, r, p, i, tb, all, FALSE, TRUE) :
     <<kA, kB, kC, a, r, p, i, tb, all>> \in
       {x \in {"arr", "part", "tbl", "img", "timg"} \X {"tbl", "arr"}
                \X {"text", "tbl"}
                \X {List(<<Num(1), Str(W)>>), List(<<>>), Str(W)}
                \X {List(<<>>), List(<<Rec(<<Str(W)>>)>>),
                    List(<<Rec(<<Str(W)>>), Rec(<<Num(7)>>), Rec(<<Str(W)>>)>>)}
                \X {List(<<Rec(<<Img(TRUE)>>), Rec(<<Img(TRUE)>>)>>)}
                \X {Img(TRUE)} \X {0, 1} \X BOOLEAN :
          /\ Uses(x[1], x[2], x[3], {"tbl"})
          /\ Uses(x[1], x[2], x[3], {"arr", "part", "img", "timg"})}}

Scenarios ==
  FamTable \cup FamArray \cup FamScalar \cup FamImage \cup FamMixed \cup FamKey

\* the options of the Workbook
Options(sc) ==
  [moveImages |-> sc.mv, subsituteAllTableRow |-> sc.all,
   moveSameLineImages |-> sc.same, pushDownPageBreakOnTableSubstitution |-> sc.pb,
   handleImageError |-> sc.hook, imageRatio |-> 100]

Substitutions(sc) ==
  [n \in {<<"a">>, <<"b">>, <<"r">>, <<"p">>, <<"i">>} |->
     CASE n = <<"a">> -> sc.a
       [] n = <<"b">> -> sc.b
       [] n = <<"r">> -> sc.r
       [] n = <<"p">> -> sc.p
       [] n = <<"i">> -> sc.i]

\* an anchor of the drawing part of the template, rows and columns from 0
Anchor0(kind, row, rid) ==
  [kind |-> kind, col |-> 3, row |-> row,
   toRow |-> IF kind = "two" THEN row + 1 ELSE row, rid |-> rid,
   ext |-> [w |-> ImageWidthEmu, h |-> ImageHeightEmu]]

\* the images of a template with a drawing: two-cell anchors at rows 1, 2, 3
\* and 4 of the sheet, a one-cell anchor at row 3
Anchors0 ==
  <<Anchor0("two", 0, 1), Anchor0("two", 1, 2), Anchor0("two", 2, 3),
    Anchor0("one", 2, 4), Anchor0("two", 3, 5)>>

\* the drawing state of a loaded template: no media unless it has a drawing;
\* the sheet's relationships hold the table part when there is one
Img0(sc) ==
  IF sc.anch
    THEN [loaded |-> FALSE, hasElem |-> TRUE, created |-> FALSE,
          srels |-> IF sc.tb # 0 THEN <<1, 2>> ELSE <<1>>,
          drels |-> [i \in 1..Len(Anchors0) |-> Anchors0[i].rid],
          media |-> [i \in 1..Len(Anchors0) |->
                       IF sc.sorted THEN i ELSE Len(Anchors0) + 1 - i],
          dfiles |-> <<1>>, anchors |-> Anchors0]
    ELSE [loaded |-> FALSE, hasElem |-> FALSE, created |-> FALSE,
          srels |-> IF sc.tb # 0 THEN <<1>> ELSE <<>>, drels |-> <<>>,
          media |-> <<>>, dfiles |-> <<>>, anchors |-> <<>>]

\* the names of the table columns of the template
ColsOf(hdr) ==
  [Cols0 EXCEPT ![2] = CASE hdr = "text" -> PhPartial
                         [] hdr = "full" -> PhArray
                         [] OTHER -> @]

\* loadTables: no relationships part, no tables
loadTables(sc) ==
  IF sc.rels
    THEN [t \in 1..Len(Tables0(sc.tb)) |->
            [Tables0(sc.tb)[t] EXCEPT !.cols = ColsOf(sc.hdr)]]
    ELSE <<>>

Heap0(sc) ==
  [sst |-> SST0, lookup |-> Lookup0, tables |-> loadTables(sc), merges |-> Merges0,
   names |-> Names0, img |-> Img0(sc), hooks |-> 0, logs |-> 0, err |-> FALSE]

\* ------------------------------------------------------------ the state
\* inp   the template and the arguments of substitute(), never changed
\* pc    "cell" (inside the rows loop), "finalize" (after it), "done", "failed"
\* ri    the position of the current row in the template, ci of the next cell
\* heap  the workbook: shared strings, tables, merged cells, names, drawing
\* acc   cells, newTableRows, cellsInserted of the current row
\* out   rows, totalRowsInserted, totalColumnsInserted, dimension

VARIABLES inp, pc, ri, ci, heap, acc, out

vars ==
  <<inp, pc, ri, ci, heap, acc, out>>

Acc0 ==
  [cells |-> <<>>, ntr |-> <<>>, ins |-> 0]

\* the start of substitute() on the template and arguments of scenario sc
\* the rows of the template: on a plain sheet numbers stand in the place of
\* the formulas
RowsOf(sc) ==
  IF sc.plain
    THEN [j \in 1..Len(SheetRows(sc.kA, sc.kB, sc.kC)) |->
            [SheetRows(sc.kA, sc.kB, sc.kC)[j] EXCEPT !.cells =
               [c \in 1..Len(@) |->
                  IF @[c].f # <<>> THEN KindCell("num", @[c].ref) ELSE @[c]]]]
    ELSE SheetRows(sc.kA, sc.kB, sc.kC)

\* the dimension element of the template
DimensionOf(sc) ==
  IF sc.tight THEN [Dimension0 EXCEPT !.ref.e = Ref(3, 3)] ELSE Dimension0

InitOf(sc) ==
  /\ inp = [rows |-> RowsOf(sc), subs |-> Substitutions(sc), pass |-> 1,
            opt |-> Options(sc), relsPart |-> sc.rels, sc |-> sc,
            heap |-> Heap0(sc)]
  /\ pc = "cell"
  /\ ri = 1
  /\ ci = 1
  /\ heap = Heap0(sc)
  /\ acc = Acc0
  /\ out = [rows |-> <<>>, tri |-> 0, tci |-> 0, dim |-> DimensionOf(sc)]

Init ==
  \E sc \in Scenarios : InitOf(sc)

\* the row element of the rows loop, its r attribute set to currentRow
CurrentRow ==
  Row(getCurrentRow(inp.rows[ri], out.tri), inp.rows[ri].spans, <<>>)

\* one turn of row.findall("c").forEach
ProcessCell ==
  /\ pc = "cell"
  /\ ci <= Len(inp.rows[ri].cells)
  /\ \E r \in {CellStep(heap, acc, inp.rows[ri].cells[ci], CurrentRow, inp.subs,
                        inp.opt, loadSheetRels(inp.relsPart))} :
       /\ heap' = r.h
       /\ acc' = [cells |-> r.cells, ntr |-> r.ntr, ins |-> r.ins]
       /\ pc' = IF r.h.err THEN "failed" ELSE "cell"
  /\ ci' = ci + 1
  /\ UNCHANGED <<inp, ri, out>>

\* the end of one turn of sheetData.findall("row").forEach
CommitRow ==
  /\ pc = "cell"
  /\ ci > Len(inp.rows[ri].cells)
  /\ \E r \in {RowEnd(heap, acc, CurrentRow, out.tci, inp.opt,
                      loadSheetRels(inp.relsPart), SheetName)} :
       /\ heap' = r.h
       /\ out' = [out EXCEPT !.rows = @ \o r.rows, !.tri = @ + Len(acc.ntr),
                             !.tci = r.tci]
  /\ acc' = Acc0
  /\ ci' = 1
  /\ IF ri < Len(inp.rows)
       THEN ri' = ri + 1 /\ pc' = "cell"
       ELSE ri' = ri /\ pc' = "finalize"
  /\ UNCHANGED inp

\* after the rows loop: table headers, dimension, cached values of formulas
Finalize ==
  /\ pc = "finalize"
  /\ \E ht \in {substituteTableColumnHeaders(heap.tables, inp.subs)} :
       IF ht.err
         THEN /\ pc' = "failed"
              /\ heap' = [heap EXCEPT !.err = TRUE]
              /\ out' = out
         ELSE /\ pc' = "done"
              /\ heap' = [heap EXCEPT !.tables = ht.tables]
              /\ out' = [out EXCEPT !.rows = ClearCached(out.rows),
                                    !.dim = UpdateDimension(out.dim, out.tri,
                                                            out.tci)]
  /\ UNCHANGED <<inp, ri, ci, acc>>

Next ==
  \/ ProcessCell
  \/ CommitRow
  \/ Finalize

Spec ==
  Init /\ [][Next]_vars

\* ------------------------------------------- the pass under other options
\* The same pass on templates with a drawing, under the options that move
\* images and named ranges.

\* table substitution on a sheet with images, under every choice of
\* moveImages, moveSameLineImages and pushDownPageBreakOnTableSubstitution
FamOptions ==
  {[Scenario(kA, "num", kC, Undef, Undef, r, Undef, Undef, 0, FALSE, FALSE, TRUE)
      EXCEPT !.mv = mv, !.same = same, !.pb = pb, !.anch = TRUE] :
     <<kA, kC, r, mv, same, pb>> \in
       {x \in {"tbl", "text"} \X {"tbl", "text"}
                \X {List(q) : q \in SeqsUpTo({Rec(<<Str(W)>>)}, MaxRecs)}
                \X BOOLEAN \X BOOLEAN \X BOOLEAN :
          "tbl" \in {x[1], x[2]}}}

\* a table whose second column header holds a placeholder
FamHeaders ==
  {[Scenario("text", "num", "text", a, Undef, Undef, Undef, Undef, tb, FALSE,
             FALSE, TRUE) EXCEPT !.hdr = hdr] :
     <<a, tb, hdr>> \in
       ({Str(W), Num(7), Bool(TRUE), Undef}
          \cup {List(q) : q \in SeqsUpTo({Num(1), Str(W)}, MaxList)})
         \X (1..3) \X {"text", "full"}}

\* the lists of two table placeholders that share a row
SiblingLists ==
  {List(q) : q \in SeqsUpTo({Rec(<<Str(W)>>), Rec(<<Num(7)>>)}, MaxRecs) \ {<<>>}}
    \cup {List(<<Rec(<<Str(Formula)>>), Rec(<<Num(7)>>)>>)}

\* ${table:r.k} in A2 and ${table:b.k} in B2
FamSiblings ==
  {Scenario("tbl", "tblb", "text", Undef, b, r, Undef, Undef, 0, FALSE, FALSE,
            TRUE) :
     <<r, b>> \in SiblingLists \X SiblingLists}

\* images embedded into a template that holds images already
FamMedia ==
  {[Scenario(kA, "num", kC, Undef, Undef, Undef, p, Img(TRUE), 0, FALSE, FALSE,
             TRUE) EXCEPT !.anch = TRUE, !.sorted = sorted] :
     <<kA, kC, p, sorted>> \in
       {"img", "timg"} \X {"text", "img"}
         \X {List(<<Rec(<<Img(TRUE)>>)>>),
             List(<<Rec(<<Img(TRUE)>>), Rec(<<Img(TRUE)>>)>>)}
         \X BOOLEAN}

\* arrays in a row of the template and in the records of a table, on a
\* sheet whose dimension is A1:C3
FamDimension ==
  {[Scenario(kA, kB, "text", a, Undef, r, Undef, Undef, 0, all, FALSE, TRUE)
      EXCEPT !.tight = TRUE] :
     <<kA, kB, a, r, all>> \in
       {x \in {"text", "arr"} \X {"num", "tbl"}
                \X {List(<<Num(1)>>), List(<<Num(1), Num(2)>>)}
                \X {List(<<Rec(<<Str(W)>>), Rec(<<Num(7)>>)>>),
                    List(<<Rec(<<Str(W)>>),
                           Rec(<<List(<<Num(1), Num(2), Num(1)>>)>>)>>),
                    List(<<Rec(<<List(<<Num(1), Num(2), Num(1)>>)>>),
                           Rec(<<Str(W)>>)>>)}
                \X BOOLEAN :
          Uses(x[1], x[2], "text", {"arr", "tbl"})}}

ScenariosVariants ==
  FamOptions \cup FamHeaders \cup FamSiblings \cup FamMedia \cup FamDimension

InitVariants ==
  \E sc \in ScenariosVariants : InitOf(sc)

SpecVariants ==
  InitVariants /\ [][Next]_vars

\* ------------------------------------------------------------ the claims
\* What the claims speak of, read off the template and the rebuilt sheet.

\* the text of the template cell c of template row j (<<>> when it has none)
TemplateText(j, c) ==
  IF inp.rows[j].cells[c].t = "s" /\ CellString(SST0, inp.rows[j].cells[c]).ok
    THEN CellString(SST0, inp.rows[j].cells[c]).string
    ELSE <<>>

\* the template cells <<j, c>> whose text is the given one
CellsWith(text) ==
  {jc \in (1..Len(inp.rows)) \X (1..3) :
     jc[2] <= Len(inp.rows[jc[1]].cells) /\ TemplateText(jc[1], jc[2]) = text}

TemplateCol(jc) ==
  inp.rows[jc[1]].cells[jc[2]].ref.col

\* the records of ${table:r.k}
Records ==
  inp.subs[<<"r">>].items

\* the template rows above row j that hold a ${table:r.k} cell
AnchorRowsAbove(j) ==
  {i \in 1..(j - 1) : \E jc \in CellsWith(PhTable) : jc[1] = i}

\* the number a template row is expected to carry after the pass, when every
\* anchor row above it generates Len(Records) - 1 rows
RowNo(j) ==
  inp.rows[j].r + (Len(Records) - 1) * Cardinality(AnchorRowsAbove(j))

\* the cells of the rebuilt sheet at well-formed reference (col, r), in the
\* row at position r
CellsAt(col, r) ==
  IF r \in 1..Len(out.rows)
    THEN {out.rows[r].cells[x] : x \in {y \in 1..Len(out.rows[r].cells) :
                                          out.rows[r].cells[y].ref = Ref(col, r)}}
    ELSE {}

\* the cell holds the value v: a number, a boolean, a formula (a string that
\* starts with "="), or a shared string
Holds(cell, v) ==
  CASE v.k = "num" ->
         cell.t = "" /\ cell.hasV /\ cell.v = NumToStr(v.n) /\ cell.f = <<>>
    [] v.k = "bool" ->
         cell.t = "b" /\ cell.hasV /\ cell.v = NumToStr(v.n) /\ cell.f = <<>>
    [] v.k = "str" /\ v.s # <<>> /\ v.s[1] = "=" ->
         cell.t = "" /\ cell.f = <<Tail(v.s)>>
    [] v.k = "str" ->
         /\ cell.t = "s" /\ cell.hasV /\ cell.f = <<>>
         /\ ParseInt(cell.v) \in 0..(Len(heap.sst) - 1)
         /\ heap.sst[ParseInt(cell.v) + 1] = v.s
    [] OTHER -> FALSE

\* the sheet's only expanding placeholders are ${table:r.k} cells, r is a
\* list of at least one record, and every keyed value is a scalar
TableOnly ==
  /\ CellsWith(PhTable) # {}
  /\ CellsWith(PhArray) = {} /\ CellsWith(PhTableImage) = {}
  /\ inp.subs[<<"r">>].k = "list" /\ Len(Records) >= 1
  /\ \A k \in 1..Len(Records) :
       GetField(Records[k], <<"k">>).k \in {"str", "num", "bool"}

\* C1: after the pass a full-match table placeholder at column c of row r with
\* N >= 1 records has left record 0's value in the cell (c, r), exactly N-1
\* generated rows r+1 .. r+N-1 directly after row r, and record k's value in
\* a cell at column c of row r+k.
C1_TableRowsHoldRecords ==
  (pc = "done" /\ TableOnly) =>
    /\ Len(out.rows) = Len(inp.rows)
         + (Len(Records) - 1) * Cardinality(AnchorRowsAbove(Len(inp.rows) + 1))
    /\ \A x \in 1..Len(out.rows) : out.rows[x].r = x
    /\ \A jc \in CellsWith(PhTable) : \A k \in 0..(Len(Records) - 1) :
         \E cell \in CellsAt(TemplateCol(jc), RowNo(jc[1]) + k) :
           Holds(cell, GetField(Records[k + 1], <<"k">>))

\* the elements of ${a}
Elements ==
  inp.subs[<<"a">>].items

\* the sheet's only expanding placeholder is one ${a} cell jc, a is a list of
\* at least one scalar
ArrayOnly(jc) ==
  /\ CellsWith(PhArray) = {jc}
  /\ CellsWith(PhTable) = {} /\ CellsWith(PhTableImage) = {}
  /\ inp.subs[<<"a">>].k = "list" /\ Len(Elements) >= 1

\* C2: after the pass a full-match normal placeholder at column c with a list
\* of N >= 1 elements has left N cells with the well-formed references of
\* columns c .. c+N-1 of its row that carry the elements in order, the
\* original cells to its right are at their column + (N-1), and the end of
\* the row's span has grown by N-1.
C2_ArrayCellsInRow ==
  pc = "done" =>
    \A jc \in CellsWith(PhArray) :
      ArrayOnly(jc) =>
        LET j == jc[1]
            n == Len(Elements)
        IN  /\ \A i \in 1..n :
                 \E cell \in CellsAt(TemplateCol(jc) + i - 1, inp.rows[j].r) :
                   Holds(cell, Elements[i])
            /\ \A c \in (jc[2] + 1)..Len(inp.rows[j].cells) :
                 \E cell \in CellsAt(inp.rows[j].cells[c].ref.col + n - 1,
                                     inp.rows[j].r) :
                   /\ cell.t = inp.rows[j].cells[c].t
                   /\ cell.f = inp.rows[j].cells[c].f
            /\ out.rows[j].spans =
                 <<inp.rows[j].spans[1], inp.rows[j].spans[2] + n - 1>>

\* the text a cell of the template is expected to show once every
\* placeholder in it is replaced by the stringified value
ExpectedText(text) ==
  IF text = PhPartial THEN <<"H">> \o Stringify(inp.subs[<<"a">>])
  ELSE Stringify(inp.subs[<<"a">>]) \o <<"-">> \o Stringify(inp.subs[<<"b">>])

\* C3: after the pass a shared-string cell whose text holds placeholders, none
\* of them the whole text, is a shared-string cell whose string is the
\* original text with every placeholder replaced by the stringified value,
\* whatever the values are.
C3_PartialTextReplaced ==
  (pc = "done" /\ CellsWith(PhTable) = {} /\ CellsWith(PhTableImage) = {}) =>
    \A jc \in CellsWith(PhPartial) \cup CellsWith(PhTwo) :
      \E cell \in CellsAt(TemplateCol(jc), inp.rows[jc[1]].r) :
        /\ cell.t = "s" /\ cell.hasV
        /\ ParseInt(cell.v) \in 0..(Len(heap.sst) - 1)
        /\ heap.sst[ParseInt(cell.v) + 1] =
             ExpectedText(TemplateText(jc[1], jc[2]))

\* the template rows with a ${table:r.k} cell inside the range of table t of
\* the template
AnchorRowsIn(t) ==
  {jc[1] : jc \in {x \in CellsWith(PhTable) :
                     isWithin(inp.rows[x[1]].cells[x[2]].ref,
                              inp.heap.tables[t].ref.s, inp.heap.tables[t].ref.e)}}

\* C4: after the pass a table definition (here one without totals row) whose
\* range covers the row of a full-match table placeholder with N >= 1 records
\* ends at its original end row + (N-1), and its auto-filter range, if
\* present, equals the new table range.
C4_TableRangeExtended ==
  (pc = "done" /\ TableOnly) =>
    \A t \in 1..Len(inp.heap.tables) :
      (~inp.heap.tables[t].totals /\ Cardinality(AnchorRowsIn(t)) = 1) =>
        /\ heap.tables[t].ref.s = inp.heap.tables[t].ref.s
        /\ heap.tables[t].ref.e.row =
             inp.heap.tables[t].ref.e.row + Len(Records) - 1
        /\ heap.tables[t].hasAf => heap.tables[t].af = heap.tables[t].ref

\* a merged region moved down by n rows
MovedDown(m, n) ==
  Range(Ref(m.s.col, m.s.row + n), Ref(m.e.col, m.e.row + n))

\* C5: the shift down by n rows at anchor row r (the end of a row that
\* generated n rows) moves every merged region that starts below r down by n,
\* keeps every region that starts on r and appends its n clones, clone k
\* offset by +k rows, and leaves the regions that start above r unchanged.
C5_ShiftDownMerges ==
  [][(pc = "cell" /\ ci > Len(inp.rows[ri].cells) /\ Len(acc.ntr) > 0) =>
       LET r == CurrentRow.r
           n == Len(acc.ntr)
           old == heap.merges
           atRow == {i \in 1..Len(heap.merges) : heap.merges[i].s.row = CurrentRow.r}
       IN  /\ Len(heap'.merges) = Len(old) + n * Cardinality(atRow)
           /\ \A i \in 1..Len(old) :
                heap'.merges[i] = IF old[i].s.row > r THEN MovedDown(old[i], n)
                                  ELSE old[i]
           /\ \A i \in atRow : \A k \in 1..n :
                \E x \in (Len(old) + 1)..Len(heap'.merges) :
                  heap'.merges[x] = MovedDown(old[i], k)]_vars

\* a row has generated two rows and two merged regions that start on it
\* have been cloned twice
C5_Witness ==
  out.tri = 2 /\ Len(heap.merges) = Len(inp.heap.merges) + 4

\* C6: a full-match substitution string that starts with "=" leaves a formula
\* cell whose formula is the string without the "=" and that has no type
\* attribute; and after the pass no cell that holds a formula holds a cached
\* value.
C6_FormulaCells ==
  pc = "done" =>
    /\ \A x \in 1..Len(out.rows) : \A y \in 1..Len(out.rows[x].cells) :
         out.rows[x].cells[y].f # <<>> => ~out.rows[x].cells[y].hasV
    /\ (/\ inp.subs[<<"a">>].k = "str"
        /\ inp.subs[<<"a">>].s # <<>>
        /\ inp.subs[<<"a">>].s[1] = "="
        /\ CellsWith(PhTable) = {} /\ CellsWith(PhTableImage) = {}) =>
         \A jc \in CellsWith(PhArray) :
           \E cell \in CellsAt(TemplateCol(jc), inp.rows[jc[1]].r) :
             cell.t = "" /\ cell.f = <<Tail(inp.subs[<<"a">>].s)>> /\ ~cell.hasV

\* the pass has ended with ${a} = "=S" in a cell next to formula cells
C6_Witness ==
  pc = "done" /\ inp.subs[<<"a">>] = Str(Formula) /\ CellsWith(PhArray) # {}

\* C7: after the pass a full-match table placeholder with an empty list has
\* left its cell in its row at the same column without type and children, no
\* row has been generated, and no merged region, table range or named range
\* has changed.
C7_EmptyListKeepsCell ==
  (/\ pc = "done"
   /\ CellsWith(PhTable) # {}
   /\ CellsWith(PhArray) = {} /\ CellsWith(PhTableImage) = {}
   /\ inp.subs[<<"r">>].k = "list" /\ Len(Records) = 0) =>
    /\ Len(out.rows) = Len(inp.rows)
    /\ \A jc \in CellsWith(PhTable) :
         \E cell \in CellsAt(TemplateCol(jc), inp.rows[jc[1]].r) :
           cell.t = "" /\ ~cell.hasV /\ cell.f = <<>>
    /\ heap.merges = inp.heap.merges
    /\ heap.names = inp.heap.names
    /\ \A t \in 1..Len(inp.heap.tables) :
         heap.tables[t].ref = inp.heap.tables[t].ref

\* the shared-string cells of the template whose index has no entry
CellsWithoutString ==
  {jc \in (1..Len(inp.rows)) \X (1..3) :
     /\ jc[2] <= Len(inp.rows[jc[1]].cells)
     /\ inp.rows[jc[1]].cells[jc[2]].t = "s"
     /\ ~CellString(SST0, inp.rows[jc[1]].cells[jc[2]]).ok}

\* C8: a shared-string cell whose index has no entry in the shared string
\* table does not make the pass fail and remains in its row with its type and
\* its value unchanged.
C8_MissingStringCellKept ==
  (CellsWithoutString # {} /\ CellsWith(PhTable) = {}
     /\ CellsWith(PhTableImage) = {} /\ CellsWith(PhImage) = {}) =>
    /\ pc # "failed"
    /\ pc = "done" =>
         \A jc \in CellsWithoutString :
           \E cell \in CellsAt(TemplateCol(jc), inp.rows[jc[1]].r) :
             /\ cell.t = "s" /\ cell.hasV
             /\ cell.v = inp.rows[jc[1]].cells[jc[2]].v

\* C9: when the value of an image placeholder cannot be decoded, the pass
\* fails if no error hook is configured; with a hook the hook is called once
\* for the placeholder, the pass completes, and no relationship, media file
\* or anchor is added.
C9_DecodeFailure ==
  (CellsWith(PhImage) # {} /\ inp.subs[<<"i">>] = Img(FALSE)) =>
    IF inp.opt.handleImageError
      THEN /\ pc # "failed"
           /\ heap.img.drels = <<>> /\ heap.img.media = <<>>
           /\ heap.img.anchors = <<>>
           /\ pc = "done" => heap.hooks = Cardinality(CellsWith(PhImage))
      ELSE pc # "done"

\* the sheet has no relationships part and holds ${image:i} cells, or one
\* ${table:p.k:image} cell, whose values are decodable images
ImagesWanted ==
  IF CellsWith(PhImage) # {} /\ inp.subs[<<"i">>] = Img(TRUE)
       /\ CellsWith(PhTableImage) = {}
    THEN Cardinality(CellsWith(PhImage))
  ELSE IF CellsWith(PhImage) = {} /\ Cardinality(CellsWith(PhTableImage)) = 1
       /\ inp.subs[<<"p">>].k = "list"
       /\ \A k \in 1..Len(inp.subs[<<"p">>].items) :
            GetField(inp.subs[<<"p">>].items[k], <<"k">>) = Img(TRUE)
    THEN Len(inp.subs[<<"p">>].items)
  ELSE 0

TextOf(v) ==
  IF v.k \in {"str", "num", "bool"} THEN Stringify(v) ELSE <<>>

\* the text of a template cell once every placeholder with a value is
\* replaced by its string form and every other one by the empty string
TextWithMissing(text) ==
  IF text = PhPartial THEN <<"H">> \o TextOf(inp.subs[<<"a">>])
  ELSE IF text = PhTwo
    THEN TextOf(inp.subs[<<"a">>]) \o <<"-">> \o TextOf(inp.subs[<<"b">>])
  ELSE <<"H">> \o TextOf(GetPath(inp.subs, <<"r">>, <<"k">>))

\* a placeholder of the text has no value in the substitutions
HasMissing(text) ==
  IF text = PhPartial THEN inp.subs[<<"a">>].k = "undef"
  ELSE IF text = PhTwo
    THEN /\ inp.subs[<<"a">>].k \in {"undef", "str", "num", "bool"}
         /\ inp.subs[<<"b">>].k \in {"undef", "str", "num", "bool"}
         /\ "undef" \in {inp.subs[<<"a">>].k, inp.subs[<<"b">>].k}
  ELSE GetPath(inp.subs, <<"r">>, <<"k">>).k = "undef"

\* the sheet's only expanding placeholders are ${table:r.k} cells, r is a
\* list of at least one record, and every field that is present is a scalar
TableWithMissing ==
  /\ CellsWith(PhTable) # {}
  /\ CellsWith(PhArray) = {} /\ CellsWith(PhTableImage) = {}
  /\ inp.subs[<<"r">>].k = "list" /\ Len(Records) >= 1
  /\ \A k \in 1..Len(Records) :
       Field(Records[k], <<"k">>).k \in {"str", "num", "bool", "undef"}

\* C11: after the pass a text whose placeholder names a missing name or key
\* shows the empty string in its place, and a full-match table placeholder
\* with N records has generated N-1 rows whichever records lack the field,
\* the cell of such a record holding the empty string.
C11_MissingIsEmpty ==
  pc = "done" =>
    /\ (CellsWith(PhTable) = {} /\ CellsWith(PhTableImage) = {}) =>
         \A jc \in CellsWith(PhPartial) \cup CellsWith(PhTwo) \cup CellsWith(PhKey) :
           HasMissing(TemplateText(jc[1], jc[2])) =>
             \E cell \in CellsAt(TemplateCol(jc), inp.rows[jc[1]].r) :
               Holds(cell, Str(TextWithMissing(TemplateText(jc[1], jc[2]))))
    /\ TableWithMissing =>
         /\ Len(out.rows) = Len(inp.rows)
              + (Len(Records) - 1) * Cardinality(AnchorRowsAbove(Len(inp.rows) + 1))
         /\ \A jc \in CellsWith(PhTable) : \A k \in 0..(Len(Records) - 1) :
              Field(Records[k + 1], <<"k">>).k = "undef" =>
                \E cell \in CellsAt(TemplateCol(jc), RowNo(jc[1]) + k) :
                  Holds(cell, Str(<<>>))

\* ------------------------------------------------ the extent of an image
\* The computation of lines 1394-1428 on its own: inp holds the natural
\* extent, the regions of the merged cells that hold the cell (none or one)
\* and the imageRatio option; out the extent of the anchor.

MaxEmu ==
  6

MaxRegionEmu ==
  4

ImageRatios ==
  {-50, 0, 50, 100, 150}

InitExtent ==
  /\ \E w \in 1..MaxEmu, h \in 1..MaxEmu, ratio \in ImageRatios,
        regions \in {<<>>} \cup {<<[mw |-> mw, mh |-> mh]>> :
                                   mw \in 2..MaxRegionEmu, mh \in 2..MaxRegionEmu} :
       inp = [w |-> w, h |-> h, regions |-> regions, imageRatio |-> ratio]
  /\ pc = "extent"
  /\ out = [w |-> 0, h |-> 0]
  /\ ri = 0 /\ ci = 0 /\ heap = 0 /\ acc = 0

ComputeExtent ==
  /\ pc = "extent"
  /\ \E lw \in {0, 1}, lh \in {0, 1} :
       out' = ImageExtent(inp.w, inp.h, inp.regions, inp.imageRatio,
                          [w |-> lw, h |-> lh])
  /\ pc' = "anchored"
  /\ UNCHANGED <<inp, ri, ci, heap, acc>>

NextExtent ==
  ComputeExtent

SpecExtent ==
  InitExtent /\ [][NextExtent]_vars

\* the extents the computation may give, over what rounding takes off
Extents(ratio) ==
  {ImageExtent(inp.w, inp.h, inp.regions, ratio, [w |-> lw, h |-> lh]) :
     lw \in {0, 1}, lh \in {0, 1}}

\* x is the exact quotient n / d rounded down, or one less when n / d is
\* an integer
Scaled(x, n, d) ==
  x = n \div d \/ (n % d = 0 /\ x = n \div d - 1)

ImageMoves(fromRow, r) ==
  /\ inp.opt.moveImages
  /\ \/ fromRow + 1 > r
     \/ fromRow + 1 = r /\ inp.opt.moveSameLineImages

\* C13: at the end of a row r that generated n rows, with moveImages every
\* image of the sheet anchored below r has its from row and its to row
\* increased by n, an image anchored at r is moved so iff moveSameLineImages
\* is set, and the images above r are unchanged; without moveImages no anchor
\* changes.
C13_ImagesMoved ==
  [][(pc = "cell" /\ ci > Len(inp.rows[ri].cells) /\ Len(acc.ntr) > 0) =>
       /\ Len(heap'.img.anchors) = Len(heap.img.anchors)
       /\ \A i \in 1..Len(heap.img.anchors) :
            heap'.img.anchors[i] =
              IF ImageMoves(heap.img.anchors[i].row, CurrentRow.r)
                THEN [heap.img.anchors[i] EXCEPT !.row = @ + Len(acc.ntr),
                                                 !.toRow = @ + Len(acc.ntr)]
                ELSE heap.img.anchors[i]]_vars

\* the named range nm with its start row moved by ds and its end row by de
NameMoved(nm, ds, de) ==
  [nm EXCEPT !.s = Ref(nm.s.col, nm.s.row + ds), !.e = Ref(nm.e.col, nm.e.row + de)]

\* C14: the shift down by n rows at anchor row r (the end of a row that
\* generated n rows) moves both rows of a named range that starts below r
\* by n whether or not pushDownPageBreakOnTableSubstitution is set; a range
\* of the current sheet that starts at or above r and ends below r has its
\* end row moved by n when the flag is set and is unchanged when it is not.
C14_ShiftDownNames ==
  [][(pc = "cell" /\ ci > Len(inp.rows[ri].cells) /\ Len(acc.ntr) > 0) =>
       /\ Len(heap'.names) = Len(heap.names)
       /\ \A i \in 1..Len(heap.names) :
            heap.names[i].isRange =>
              IF heap.names[i].s.row > CurrentRow.r
                THEN heap'.names[i] =
                       NameMoved(heap.names[i], Len(acc.ntr), Len(acc.ntr))
              ELSE IF heap.names[i].e.row > CurrentRow.r
                THEN IF inp.opt.pushDownPageBreakOnTableSubstitution
                       THEN heap.names[i].sheet = SheetName =>
                              heap'.names[i] =
                                NameMoved(heap.names[i], 0, Len(acc.ntr))
                       ELSE heap'.names[i] = heap.names[i]
              ELSE TRUE]_vars

\* the names a list of values gives to the columns it creates
NamesOf(list) ==
  [j \in 1..Len(list) |-> Stringify(list[j])]

\* the column names expected of the table after the pass
ExpectedCols ==
  LET a == inp.subs[<<"a">>]
  IN  IF inp.sc.hdr = "full" /\ a.k = "list"
        THEN <<Cols0[1]>> \o NamesOf(a.items) \o <<Cols0[3]>>
      ELSE IF inp.sc.hdr = "full" THEN [Cols0 EXCEPT ![2] = Stringify(a)]
      ELSE [Cols0 EXCEPT ![2] = <<"H">> \o Stringify(a)]

\* C15: a pass over a sheet with a table whose column header holds a
\* placeholder with a substitution completes without error; a scalar value
\* replaces the placeholder in the header text, and a full-match normal
\* placeholder with a list of N elements gives N columns named by the
\* elements, the end column of the table range increased by N-1.
C15_HeadersReplaced ==
  (/\ inp.sc.hdr # "c2"
   /\ \/ inp.subs[<<"a">>].k \in {"str", "num", "bool"}
      \/ inp.sc.hdr = "full" /\ inp.subs[<<"a">>].k = "list"
           /\ Len(inp.subs[<<"a">>].items) >= 1) =>
    /\ pc # "failed"
    /\ pc = "done" =>
         \A t \in 1..Len(heap.tables) :
           /\ heap.tables[t].cols = ExpectedCols
           /\ ~heap.tables[t].ref.e.sp
           /\ heap.tables[t].ref.e.col =
                inp.heap.tables[t].ref.e.col + Len(ExpectedCols) - Len(Cols0)

\* ---------------------------------------------------------------------------
\* The shared string table in a session: the strings of the template are
\* loaded, then strings are looked up, added and replaced. Here heap is the
\* table and its lookup, out the last call and the index it returned, and acc
\* maps a string to the index its first lookup returned (forgotten when the
\* string is an argument of a replacement). A substitution pass reaches the
\* table through stringIndex only.
\* ---------------------------------------------------------------------------
MaxStrings ==
  3

MaxLoaded ==
  2

Strs ==
  {<<"x">>, <<"y">>, <<"constructor">>}

RECURSIVE LoadStrings(_, _, _)
\* loadTemplate: every <si> of sharedStrings.xml is pushed and looked up by
\* its text
LoadStrings(h, q, i) ==
  IF i > Len(q) THEN h ELSE LoadStrings(addSharedString(h, q[i]), q, i + 1)

InitStrings ==
  /\ \E q \in SeqsUpTo(Strs, MaxLoaded) :
       /\ inp = q
       /\ heap = LoadStrings([sst |-> <<>>, lookup |-> <<>>], q, 1)
  /\ pc = "session"
  /\ out = [op |-> "load", s |-> <<>>, t |-> <<>>, idx |-> 0]
  /\ acc = <<>>
  /\ ri = 0 /\ ci = 0

Forget(seen, S) ==
  [x \in DOMAIN seen \ S |-> seen[x]]

IndexString ==
  /\ pc = "session"
  /\ \E s \in Strs :
       /\ LookupDefined(heap, s) \/ Len(heap.sst) < MaxStrings
       /\ \E r \in {stringIndex(heap, s)} :
            /\ heap' = r.h
            /\ out' = [op |-> "index", s |-> s, t |-> <<>>, idx |-> r.idx]
            /\ acc' = IF s \in DOMAIN acc THEN acc
                      ELSE LookupSet(acc, s, r.idx)
  /\ UNCHANGED <<inp, pc, ri, ci>>

AppendString ==
  /\ pc = "session"
  /\ Len(heap.sst) < MaxStrings
  /\ \E s \in Strs :
       /\ heap' = addSharedString(heap, s)
       /\ out' = [op |-> "append", s |-> s, t |-> <<>>, idx |-> Len(heap.sst)]
  /\ UNCHANGED <<inp, pc, ri, ci, acc>>

ReplaceString ==
  /\ pc = "session"
  /\ \E s \in Strs, t \in Strs :
       /\ LookupDefined(heap, s) \/ Len(heap.sst) < MaxStrings
       /\ \E r \in {replaceString(heap, s, t)} :
            /\ heap' = r.h
            /\ out' = [op |-> "replace", s |-> s, t |-> t, idx |-> r.idx]
       /\ acc' = Forget(acc, {s, t})
  /\ UNCHANGED <<inp, pc, ri, ci>>

NextStrings ==
  \/ IndexString
  \/ AppendString
  \/ ReplaceString

SpecStrings ==
  InitStrings /\ [][NextStrings]_vars

\* the string s is an entry of the table
Present(h, s) ==
  \E i \in 1..Len(h.sst) : h.sst[i] = s

\* idx is an index of the table h and the entry there is s
EntryIs(h, idx, s) ==
  /\ idx \in 0..(Len(h.sst) - 1)
  /\ h.sst[idx + 1] = s

\* C16: in a session of lookups, additions and replacements, a lookup of a
\* string returns an index whose entry is the string, returns the index an
\* earlier lookup of the string returned (unless the string was an argument
\* of a replacement since), and does not grow the table when the string is
\* already an entry of it.
C16_IndexStable ==
  [][out'.op = "index" =>
       /\ EntryIs(heap', out'.idx, out'.s)
       /\ out'.s \in DOMAIN acc => out'.idx = acc[out'.s]
       /\ Present(heap, out'.s) => Len(heap'.sst) = Len(heap.sst)]_vars

\* C17: a replacement of a string that has an index i puts the new string at
\* entry i, makes the lookup map the new string to i and drop the old one,
\* and keeps the length of the table; a replacement of a string that has no
\* index returns the index and leaves the table that a lookup of the new
\* string would, so that nothing is appended when the new string is present.
C17_ReplaceInPlaceOrIndex ==
  [][out'.op = "replace" =>
       IF out'.s \in DOMAIN heap.lookup
         THEN /\ out'.idx = heap.lookup[out'.s]
              /\ EntryIs(heap', out'.idx, out'.t)
              /\ out'.t \in DOMAIN heap'.lookup
              /\ heap'.lookup[out'.t] = out'.idx
              /\ out'.s # out'.t => out'.s \notin DOMAIN heap'.lookup
              /\ Len(heap'.sst) = Len(heap.sst)
         ELSE /\ out'.idx = stringIndex(heap, out'.t).idx
              /\ heap' = stringIndex(heap, out'.t).h]_vars

\* ---------------------------------------------------------------------------
\* Column letters and column numbers. Here inp is a column given as letters
\* or as a number, and out is what the two conversions make of it, one
\* applied after the other.
\* ---------------------------------------------------------------------------
MaxColLen ==
  3

MaxColNum ==
  800

Letters ==
  <<"A", "B", "C", "D", "E", "F", "G", "H", "I", "J", "K", "L", "M",
    "N", "O", "P", "Q", "R", "S", "T", "U", "V", "W", "X", "Y", "Z">>

\* str.charCodeAt(idx) of an uppercase letter
charCodeAt(ch) ==
  64 + (CHOOSE i \in 1..Len(Letters) : Letters[i] = ch)

\* String.fromCharCode(charCode) of the code of an uppercase letter
fromCharCode(charCode) ==
  Letters[charCode - 64]

\* one turn of the loop of _numToChar that does not decrement num when the
\* remainder is 0
NumToCharStepNoCarry(num) ==
  [num |-> (num - (num % 26)) \div 26,
   charCode |-> IF num % 26 = 0 THEN 90 ELSE (num % 26) + 64]

\* one turn of the loop of _numToChar: [num, charCode]
NumToCharStep(num) ==
  IF num % 26 = 0
    THEN [num |-> ((num - (num % 26)) \div 26) - 1, charCode |-> 90]
    ELSE [num |-> (num - (num % 26)) \div 26, charCode |-> (num % 26) + 64]

RECURSIVE NumToCharLoop(_, _)
NumToCharLoop(num, str) ==
  IF num > 0
    THEN With(NumToCharStep(num), LAMBDA st :
           NumToCharLoop(st.num, <<fromCharCode(st.charCode)>> \o str))
    ELSE str

\* _numToChar
numToChar(num) ==
  NumToCharLoop(num, <<>>)

RECURSIVE Pow26(_)
\* Math.pow(26, iteration)
Pow26(iteration) ==
  IF iteration = 0 THEN 1 ELSE 26 * Pow26(iteration - 1)

RECURSIVE CharToNumLoop(_, _, _, _)
CharToNumLoop(str, idx, iteration, num) ==
  IF idx >= 1
    THEN CharToNumLoop(str, idx - 1, iteration + 1,
                       num + Pow26(iteration) * (charCodeAt(str[idx]) - 64))
    ELSE num

\* _charToNum
charToNum(str) ==
  CharToNumLoop(str, Len(str), 0, 0)

LetterSet ==
  {Letters[i] : i \in 1..Len(Letters)}

InitColumns ==
  /\ \/ \E m \in 1..MaxColLen : \E str \in [1..m -> LetterSet] :
          inp = [kind |-> "letters", s |-> str, n |-> 0]
     \/ \E num \in 1..MaxColNum :
          inp = [kind |-> "number", s |-> <<>>, n |-> num]
  /\ pc = "column"
  /\ out = [s |-> <<>>, n |-> 0]
  /\ ri = 0 /\ ci = 0 /\ heap = 0 /\ acc = 0

\* _numToChar(_charToNum(str))
ConvertLetters ==
  /\ pc = "column"
  /\ inp.kind = "letters"
  /\ out' = [n |-> charToNum(inp.s), s |-> numToChar(charToNum(inp.s))]
  /\ pc' = "converted"
  /\ UNCHANGED <<inp, ri, ci, heap, acc>>

\* _charToNum(_numToChar(num))
ConvertNumber ==
  /\ pc = "column"
  /\ inp.kind = "number"
  /\ out' = [s |-> numToChar(inp.n), n |-> charToNum(numToChar(inp.n))]
  /\ pc' = "converted"
  /\ UNCHANGED <<inp, ri, ci, heap, acc>>

NextColumns ==
  \/ ConvertLetters
  \/ ConvertNumber

SpecColumns ==
  InitColumns /\ [][NextColumns]_vars

\* C18: the letters of a column converted to its number and back are the
\* same letters, the number of a column converted to letters and back is the
\* same number, the letters made of a number are a non-empty string of
\* uppercase letters, and A is 1, Z is 26 and AA is 27.
C18_ColumnsRoundTrip ==
  pc = "converted" =>
    /\ inp.kind = "letters" =>
         /\ out.s = inp.s
         /\ out.n >= 1
         /\ inp.s = <<"A">> => out.n = 1
         /\ inp.s = <<"Z">> => out.n = 26
         /\ inp.s = <<"A", "A">> => out.n = 27
    /\ inp.kind = "number" =>
         /\ out.n = inp.n
         /\ Len(out.s) >= 1
         /\ \A i \in 1..Len(out.s) : out.s[i] \in LetterSet

C18_Witness ==
  /\ pc = "converted"
  /\ inp.kind = "letters"
  /\ inp.s = <<"A", "Z">>
  /\ out.n = 52
  /\ out.s = <<"A", "Z">>

\* ---------------------------------------------------------------------------
\* Placeholders of a string. Here inp is a string put together from
\* placeholder occurrences, the text between them and the text around them,
\* and out is the list of tokens extractPlaceholders returns for it.
\* ---------------------------------------------------------------------------
MaxOccs ==
  2

\* ${ [TYPE ":"] NAME ["." KEY] [":" SUBTYPE] }; a SUBTYPE only after a TYPE,
\* since ${a:b} reads as TYPE a and NAME b
Occurrences ==
  {[type |-> ty, name |-> nm, key |-> ky, subType |-> su] :
     ty \in {<<>>, <<"t">>}, nm \in {<<"a">>, <<"b">>},
     ky \in {<<>>, <<"k">>}, su \in {<<>>, <<"u">>}} \
  {o \in [type : {<<>>}, name : {<<"a">>, <<"b">>}, key : {<<>>, <<"k">>},
          subType : {<<"u">>}] : TRUE}

Separators ==
  {<<>>, <<" ">>, <<":">>, <<"x", ".">>}

Around ==
  {<<>>, <<"x">>}

OccText(o) ==
  <<"$", "{">>
  \o (IF o.type # <<>> THEN o.type \o <<":">> ELSE <<>>)
  \o o.name
  \o (IF o.key # <<>> THEN <<".">> \o o.key ELSE <<>>)
  \o (IF o.subType # <<>> THEN <<":">> \o o.subType ELSE <<>>)
  \o <<"}">>

RECURSIVE JoinOccs(_, _, _)
JoinOccs(occs, seps, i) ==
  IF i > Len(occs) THEN <<>>
  ELSE (IF i > 1 THEN seps[i - 1] ELSE <<>>) \o OccText(occs[i])
       \o JoinOccs(occs, seps, i + 1)

InitPlaceholders ==
  /\ \E k \in 0..MaxOccs :
       \E occs \in [1..k -> Occurrences],
          seps \in [1..(IF k > 0 THEN k - 1 ELSE 0) -> Separators],
          pre \in Around, post \in Around :
         inp = [occs |-> occs,
                string |-> pre \o JoinOccs(occs, seps, 1) \o post]
  /\ pc = "string"
  /\ out = <<>>
  /\ ri = 0 /\ ci = 0 /\ heap = 0 /\ acc = 0

Extract ==
  /\ pc = "string"
  /\ out' = extractPlaceholders(inp.string)
  /\ pc' = "extracted"
  /\ UNCHANGED <<inp, ri, ci, heap, acc>>

NextPlaceholders ==
  Extract

SpecPlaceholders ==
  InitPlaceholders /\ [][NextPlaceholders]_vars

\* the token of the occurrence o in the string s
TokenOf(o, s) ==
  [placeholder |-> OccText(o),
   type |-> IF o.type # <<>> THEN o.type ELSE <<"normal">>,
   name |-> o.name, key |-> o.key, hasKey |-> o.key # <<>>,
   subType |-> o.subType,
   full |-> (OccText(o) = s)]

\* C19: for a string of k placeholder occurrences with other text between
\* and around them, the tokens extracted are k, in the order of the
\* occurrences, and each has the text of its occurrence as matched text, the
\* type, name, key and subtype of the occurrence ("normal" for no type), and
\* is full exactly when its matched text is the whole string.
C19_OneTokenPerOccurrence ==
  pc = "extracted" =>
    /\ Len(out) = Len(inp.occs)
    /\ \A i \in 1..Len(inp.occs) :
         i <= Len(out) => out[i] = TokenOf(inp.occs[i], inp.string)

\* ---------------------------------------------------------------------------
\* Table placeholders that share a row
\* ---------------------------------------------------------------------------
SiblingsOnly ==
  /\ CellsWith(PhTable) = {<<2, 1>>}
  /\ CellsWith(PhTableB) = {<<2, 2>>}

SiblingRecords(name) ==
  inp.subs[name].items

MaxRecords ==
  IF Len(SiblingRecords(<<"r">>)) >= Len(SiblingRecords(<<"b">>))
    THEN Len(SiblingRecords(<<"r">>)) ELSE Len(SiblingRecords(<<"b">>))

\* the rows generated for row 2 hold, in the column col, the records after
\* the first of the list called name
SiblingHolds(name, col) ==
  \A k \in 1..(Len(SiblingRecords(name)) - 1) :
    \E cell \in CellsAt(col, 2 + k) :
      Holds(cell, GetField(SiblingRecords(name)[k + 1], <<"k">>))

\* C20: when ${table:r.k} and ${table:b.k} stand in one row and their lists
\* have N1 >= 1 and N2 >= 1 records, the pass generates max(N1, N2) - 1 rows
\* below that row, and generated row k holds record k (counted from 0) of
\* each list that has more than k records, in the column of its placeholder.
C20_SiblingsShareRows ==
  (pc = "done" /\ SiblingsOnly) =>
    /\ Len(out.rows) = Len(inp.rows) + MaxRecords - 1
    /\ \A x \in 1..Len(out.rows) : out.rows[x].r = x
    /\ SiblingHolds(<<"r">>, 1)
    /\ SiblingHolds(<<"b">>, 2)

\* ---------------------------------------------------------------------------
\* Row numbers of the rebuilt sheet
\* ---------------------------------------------------------------------------
Increasing(rows) ==
  \A x \in 1..(Len(rows) - 1) : rows[x].r < rows[x + 1].r

\* C21: the original row that a turn of the rows loop adds to the rebuilt
\* sheet carries its number in the template plus the number of rows generated
\* by the rows before it, every cell of it carries that row number, and the
\* row numbers of the rebuilt sheet, generated rows included, are strictly
\* increasing.
C21_RowsRenumbered ==
  [][Len(out'.rows) > Len(out.rows) =>
       /\ out'.rows[Len(out.rows) + 1].r
            = inp.rows[ri].r + (Len(out.rows) - (ri - 1))
       /\ \A c \in 1..Len(out'.rows[Len(out.rows) + 1].cells) :
            splitRef(out'.rows[Len(out.rows) + 1].cells[c].ref).row
              = out'.rows[Len(out.rows) + 1].r
       /\ Increasing(out'.rows)]_vars

C21_Witness ==
  /\ pc = "done"
  /\ Len(out.rows) = Len(inp.rows) + 4
  /\ out.rows[4].r = 4 /\ out.rows[5].r = 5
  /\ out.rows[Len(out.rows)].r = Len(out.rows)

\* ---------------------------------------------------------------------------
\* The shift right of an array expansion
\* ---------------------------------------------------------------------------
\* the cell of this turn of the cells loop, as the loop has renumbered it
AnchorRef ==
  getCurrentCell(inp.rows[ri].cells[ci], getCurrentRow(inp.rows[ri], out.tri),
                 acc.ins)

\* a range is right of the anchor on its row
RightOf(s, anchor) ==
  s.row = anchor.row /\ s.col > anchor.col

MovedRight(s, e, s1, e1, n) ==
  /\ s1.row = s.row /\ e1.row = e.row
  /\ s1.col = s.col + n /\ e1.col = e.col + n

\* C22: a turn of the cells loop that inserts n cells at the cell (r, c) moves
\* both ends of exactly the merged cells and defined names (ranges and single
\* references) that start on row r at a column greater than c right by n
\* columns, rows unchanged, and leaves every other merged cell and defined
\* name as it was; a turn that inserts no cell leaves all of them as they
\* were.
C22_ShiftRight ==
  [][(pc = "cell" /\ ci' = ci + 1 /\ ~heap'.err) =>
       /\ Len(heap'.merges) = Len(heap.merges)
       /\ Len(heap'.names) = Len(heap.names)
       /\ \A i \in 1..Len(heap.merges) :
            IF acc'.ins # acc.ins /\ RightOf(heap.merges[i].s, AnchorRef)
              THEN MovedRight(heap.merges[i].s, heap.merges[i].e,
                              heap'.merges[i].s, heap'.merges[i].e,
                              acc'.ins - acc.ins)
              ELSE heap'.merges[i] = heap.merges[i]
       /\ \A i \in 1..Len(heap.names) :
            IF acc'.ins # acc.ins /\ RightOf(heap.names[i].s, AnchorRef)
              THEN /\ MovedRight(heap.names[i].s, heap.names[i].e,
                                 heap'.names[i].s, heap'.names[i].e,
                                 acc'.ins - acc.ins)
                   /\ heap'.names[i].sheet = heap.names[i].sheet
                   /\ heap'.names[i].isRange = heap.names[i].isRange
              ELSE heap'.names[i] = heap.names[i]]_vars

C22_Witness ==
  /\ pc = "cell" /\ ri = 2 /\ ci = 2
  /\ acc.ins = 2
  /\ heap.merges[1] = Merges0[1]
  /\ heap.merges[2] = Range(Ref(6, 2), Ref(7, 2))
  /\ heap.merges[3] = Range(Ref(8, 2), Ref(8, 3))
  /\ heap.names[1].s = Ref(6, 2)
  /\ heap.names[2] = Names0[2]

\* ---------------------------------------------------------------------------
\* Identifiers of embedded images
\* ---------------------------------------------------------------------------
Distinct(q) ==
  \A i, j \in 1..Len(q) : q[i] = q[j] => i = j

\* C23: a step that embeds images leaves the relationship ids of the drawing
\* pairwise distinct, each new id being the largest id before it plus one,
\* and stores every embedded image as a media file the archive did not hold,
\* so that the media files of before are all kept and one file is added for
\* each image.
C23_FreshIdentifiers ==
  [][Len(heap'.img.drels) > Len(heap.img.drels) =>
       /\ Distinct(heap'.img.drels)
       /\ \A i \in (Len(heap.img.drels) + 1)..Len(heap'.img.drels) :
            heap'.img.drels[i] = SeqMax(SubSeq(heap'.img.drels, 1, i - 1)) + 1
       /\ Distinct(heap'.img.media)
       /\ Len(heap'.img.media) - Len(heap.img.media)
            = Len(heap'.img.drels) - Len(heap.img.drels)
       /\ SubSeq(heap'.img.media, 1, Len(heap.img.media)) = heap.img.media]_vars

\* ---------------------------------------------------------------------------
\* The next column and the next row of a cell reference. Here inp is a plain
\* reference (column letters, row number), out the reference nextCol or
\* nextRow makes of it, and pc tells which of the two ran.
\* ---------------------------------------------------------------------------
MaxRefCol ==
  30

MaxRefRow ==
  5

InitRefs ==
  /\ \E c \in 1..MaxRefCol, r \in 1..MaxRefRow : inp = Ref(c, r)
  /\ pc = "ref"
  /\ out = Ref(0, 0)
  /\ ri = 0 /\ ci = 0 /\ heap = 0 /\ acc = 0

NextColOfRef ==
  /\ pc = "ref"
  /\ out' = nextCol(inp)
  /\ pc' = "nextCol"
  /\ UNCHANGED <<inp, ri, ci, heap, acc>>

NextRowOfRef ==
  /\ pc = "ref"
  /\ out' = nextRow(inp)
  /\ pc' = "nextRow"
  /\ UNCHANGED <<inp, ri, ci, heap, acc>>

NextRefs ==
  \/ NextColOfRef
  \/ NextRowOfRef

SpecRefs ==
  InitRefs /\ [][NextRefs]_vars

\* C24: for a plain reference, nextCol gives the reference of the same row
\* and the next column and nextRow the reference of the same column and the
\* next row, formatted as joinRef formats them, and what they give parses
\* back to that column and row.
C24_NextRefFormatted ==
  /\ pc = "nextCol" =>
       /\ out = joinRef(inp.col + 1, inp.row)
       /\ splitRef(out) = [col |-> inp.col + 1, row |-> inp.row]
  /\ pc = "nextRow" =>
       /\ out = joinRef(inp.col, inp.row + 1)
       /\ splitRef(out) = [col |-> inp.col, row |-> inp.row + 1]

\* ---------------------------------------------------------------------------
\* The dimension of the rebuilt sheet
\* ---------------------------------------------------------------------------
\* the reference, as splitRef reads it, lies in the range
Contains(range, ref) ==
  /\ splitRef(range.s).col <= splitRef(ref).col
  /\ splitRef(ref).col <= splitRef(range.e).col
  /\ splitRef(range.s).row <= splitRef(ref).row
  /\ splitRef(ref).row <= splitRef(range.e).row

AllCellsIn(range, rows) ==
  \A x \in 1..Len(rows) : \A c \in 1..Len(rows[x].cells) :
    Contains(range, rows[x].cells[c].ref)

\* C25: when the dimension of the template contains the reference of every
\* cell of the sheet, the dimension after the pass contains the reference of
\* every cell of the rebuilt sheet, the cells of generated rows and of arrays
\* in table records included.
C25_DimensionCoversCells ==
  (pc = "done" /\ out.dim.has /\ AllCellsIn(DimensionOf(inp.sc).ref, inp.rows)) =>
    AllCellsIn(out.dim.ref, out.rows)

\* ---------------------------------------------------------------------------
\* The cells of a row of the rebuilt sheet
\* ---------------------------------------------------------------------------
\* C26: after a pass no two cells of a row of the rebuilt sheet carry the
\* same reference, and the row of the reference of every cell is the number
\* of the row that holds the cell.
C26_CellsOfRowDistinct ==
  pc = "done" =>
    \A x \in 1..Len(out.rows) :
      /\ \A c, d \in 1..Len(out.rows[x].cells) :
           out.rows[x].cells[c].ref = out.rows[x].cells[d].ref => c = d
      /\ \A c \in 1..Len(out.rows[x].cells) :
           splitRef(out.rows[x].cells[c].ref).row = out.rows[x].r

\* ---------------------------------------------------------------------------
\* Merged cells of the rebuilt sheet
\* ---------------------------------------------------------------------------
\* two rectangles share a cell
Overlap(m1, m2) ==
  /\ splitRef(m1.s).col <= splitRef(m2.e).col
  /\ splitRef(m2.s).col <= splitRef(m1.e).col
  /\ splitRef(m1.s).row <= splitRef(m2.e).row
  /\ splitRef(m2.s).row <= splitRef(m1.e).row

NonOverlapping(merges) ==
  \A i, j \in 1..Len(merges) : i # j => ~Overlap(merges[i], merges[j])

\* C27: when no two merged cells of the template share a cell, no two merged
\* cells share a cell after the pass, whatever rows and columns the pass
\* inserted.
C27_MergesStayDisjoint ==
  (pc = "done" /\ NonOverlapping(inp.heap.merges)) => NonOverlapping(heap.merges)

\* ---------------------------------------------------------------------------
\* Sheets of the workbook: deleteSheet, copySheet and _rebuild. Here heap is
\* the workbook: sheets, the sheet elements in document order, each with its
\* name, its r:id and (for the claims) the content it had when it came into
\* the workbook; rels, the worksheet relationships with their Id (0: none
\* yet) and the number n of their target worksheets/sheet<n>.xml; parts, the
\* content of every such part of the archive. The relationships of other
\* types sort after the worksheets in _rebuild and are left out.
\* ---------------------------------------------------------------------------
MaxSheets ==
  3

SheetNames ==
  <<"S1", "S2", "S3", "S4">>

CopyNames ==
  {"C1", "C2"}

\* the r:id order of the sheets of a template: in document order or not
RidOrders(n) ==
  {f \in [1..n -> 1..n] : \A i, j \in 1..n : f[i] = f[j] => i = j}

InitSheets ==
  /\ \E n \in 2..MaxSheets : \E f \in RidOrders(n) :
       /\ inp = [n |-> n, rids |-> f]
       /\ heap = [sheets |-> [i \in 1..n |->
                                [name |-> SheetNames[i], rid |-> f[i],
                                 own |-> SheetNames[i]]],
                  rels |-> [i \in 1..n |-> [id |-> f[i], target |-> i]],
                  parts |-> [i \in 1..n |-> SheetNames[i]]]
  /\ pc = "workbook"
  /\ out = [op |-> "load", sheet |-> "", part |-> 0]
  /\ ri = 0 /\ ci = 0 /\ acc = 0

\* loadSheets / loadSheet: the number of the part of the sheet of that name
SheetPart(h, name) ==
  LET sh == CHOOSE s \in {h.sheets[i] : i \in 1..Len(h.sheets)} : s.name = name
      rel == CHOOSE r \in {h.rels[i] : i \in 1..Len(h.rels)} : r.id = sh.rid
  IN  rel.target

\* the comparator of _rebuild for two worksheet relationships: by the number
\* of the Id; a relationship without Id is the one just made, whose _id is
\* the largest
RelBefore(rels, j, i) ==
  \/ rels[j].id > 0 /\ rels[i].id > 0 /\ rels[j].id < rels[i].id
  \/ rels[j].id > 0 /\ rels[i].id = 0
  \/ rels[j].id = 0 /\ rels[i].id = 0 /\ j < i

\* _rebuild: the relationships are numbered in sorted order, the sheets in
\* document order
rebuild(h) ==
  [h EXCEPT !.rels = [i \in 1..Len(h.rels) |->
                        [h.rels[i] EXCEPT !.id =
                           1 + Cardinality({j \in 1..Len(h.rels) :
                                              RelBefore(h.rels, j, i)})]],
            !.sheets = [i \in 1..Len(h.sheets) |-> [h.sheets[i] EXCEPT !.rid = i]]]

deleteSheet(h, sheetName) ==
  LET sh == CHOOSE s \in {h.sheets[i] : i \in 1..Len(h.sheets)} :
              s.name = sheetName
  IN  rebuild([h EXCEPT !.sheets = SelectSeq(@, LAMBDA s : s # sh),
                        !.rels = SelectSeq(@, LAMBDA r : r.id # sh.rid)])

\* copySheet(sheetName, copyName)
copySheet(h, sheetName, copyName) ==
  LET newSheetIndex == Len(h.sheets) + 1
  IN  rebuild([h EXCEPT
                 !.parts = [n \in DOMAIN h.parts \cup {newSheetIndex} |->
                              IF n = newSheetIndex
                                THEN h.parts[SheetPart(h, sheetName)]
                                ELSE h.parts[n]],
                 !.sheets = Append(@, [name |-> copyName, rid |-> newSheetIndex,
                                       own |-> h.parts[SheetPart(h, sheetName)]]),
                 !.rels = Append(@, [id |-> 0, target |-> newSheetIndex])])

SheetsListed(h) ==
  {h.sheets[i].name : i \in 1..Len(h.sheets)}

DeleteSheet ==
  /\ pc = "workbook"
  /\ \E name \in SheetsListed(heap) :
       /\ heap' = deleteSheet(heap, name)
       /\ out' = [op |-> "delete", sheet |-> name, part |-> 0]
  /\ UNCHANGED <<inp, pc, ri, ci, acc>>

CopySheet ==
  /\ pc = "workbook"
  /\ Len(heap.sheets) < MaxSheets
  /\ \E name \in SheetsListed(heap), copyName \in CopyNames \ SheetsListed(heap) :
       /\ heap' = copySheet(heap, name, copyName)
       /\ out' = [op |-> "copy", sheet |-> copyName,
                  part |-> Len(heap.sheets) + 1]
  /\ UNCHANGED <<inp, pc, ri, ci, acc>>

NextSheets ==
  \/ DeleteSheet
  \/ CopySheet

SpecSheets ==
  InitSheets /\ [][NextSheets]_vars

\* C28: in a session of deleteSheet and copySheet calls a copy is written to
\* a part that is the part of no sheet listed before the call, and after
\* every call each listed sheet resolves to a part that holds the content the
\* sheet came with.
C28_CopyToFreshPart ==
  [][/\ out'.op = "copy" =>
          \A name \in SheetsListed(heap) : SheetPart(heap, name) # out'.part
     /\ \A i \in 1..Len(heap'.sheets) :
          heap'.parts[SheetPart(heap', heap'.sheets[i].name)]
            = heap'.sheets[i].own]_vars

\* ---------------------------------------------------------------------------
\* Defined names of other sheets
\* ---------------------------------------------------------------------------
\* C29: a pass on a sheet leaves every defined name whose sheet qualifier
\* names another sheet as it was, whatever rows and columns it inserts.
C29_OtherSheetNamesKept ==
  pc = "done" =>
    /\ Len(heap.names) = Len(inp.heap.names)
    /\ \A i \in 1..Len(inp.heap.names) :
         inp.heap.names[i].sheet # SheetName =>
           heap.names[i] = inp.heap.names[i]

\* ---------------------------------------------------------------------------
\* Passes over a sheet that holds no placeholder and no formula, one after
\* the other on the same workbook
\* ---------------------------------------------------------------------------
MaxPasses ==
  2

\* sheets of texts and numbers under every table definition; the
\* substitutions do not matter to them
FamPlain ==
  {[Scenario(kA, "num", kC, a, Undef, r, Undef, Undef, tb, all, FALSE, TRUE)
      EXCEPT !.plain = TRUE, !.pb = pb] :
     <<kA, kC, a, r, tb, all, pb>> \in
       {"text", "num"} \X {"text", "num"} \X {Undef, List(<<Num(1), Num(2)>>)}
         \X {Undef, List(<<Rec(<<Str(W)>>), Rec(<<Num(7)>>)>>)}
         \X (0..3) \X BOOLEAN \X BOOLEAN}

InitRepeat ==
  \E sc \in FamPlain : InitOf(sc)

\* substitute(sheetName, substitutions) called again: the sheet of the
\* workbook is now the rebuilt one
SubstituteAgain ==
  /\ pc = "done"
  /\ inp.pass < MaxPasses
  /\ inp' = [inp EXCEPT !.rows = out.rows, !.pass = @ + 1]
  /\ pc' = "cell"
  /\ ri' = 1
  /\ ci' = 1
  /\ acc' = Acc0
  /\ out' = [rows |-> <<>>, tri |-> 0, tci |-> 0, dim |-> out.dim]
  /\ UNCHANGED heap

NextRepeat ==
  \/ Next
  \/ SubstituteAgain

SpecRepeat ==
  InitRepeat /\ [][NextRepeat]_vars

\* C30: after a pass, and after a repeated pass, over a sheet that holds no
\* placeholder and no formula, the rows with their numbers and cells, the
\* merged cells, the dimension, the defined names, the shared strings and
\* the range and auto-filter range of every table are those of the template.
C30_PassWithoutPlaceholders ==
  pc = "done" =>
    /\ out.rows = RowsOf(inp.sc)
    /\ heap.merges = inp.heap.merges
    /\ out.dim = DimensionOf(inp.sc)
    /\ heap.names = inp.heap.names
    /\ heap.sst = inp.heap.sst
    /\ Len(heap.tables) = Len(inp.heap.tables)
    /\ \A t \in 1..Len(heap.tables) :
         /\ heap.tables[t].ref = inp.heap.tables[t].ref
         /\ heap.tables[t].hasAf => heap.tables[t].af = inp.heap.tables[t].af

====
